---- MODULE Spec2Model ----
(***************************************************************************)
(* Model of the Modern Art game server: the auction state machine          *)
(* (server/auction.py), the card catalog (server/cards.py) and the         *)
(* per-room game orchestrator (server/game.py).                            *)
(*                                                                         *)
(* Python lists are modelled as sequences (1-based here, 0-based in the    *)
(* code: index i of the code is element i + 1).  Auction.passed is a list  *)
(* that the code only appends to and tests membership of; it is modelled   *)
(* as the set of its elements.  Auction.bids is a dict, modelled as a      *)
(* function whose domain is the set of keys.  Python's None is the record  *)
(* None for objects and the empty string for an absent error message.      *)
(***************************************************************************)
EXTENDS Integers, Sequences, FiniteSets, TLC

\* ------------------------------------------------------------------ bounds

\* Number of players seated in the room (the lobby admits 3 to 5).
NumPlayers == 3

\* Number of cards of the shuffled deck that the modelled games deal from.
DeckSize == 4

\* Largest amount, in thousands, a player submits in the modelled games.
MaxBidK == 1

\* Largest number of players of an auction driven on its own.
MaxAuctionPlayers == 4

\* Longest record of the calls made on an auction driven on its own.
MaxLog == 4

\* ------------------------------------------------------------------ cards.py

None == [none |-> TRUE]

ARTISTS == <<"Orange Tarou", "Green Tarou", "Blue Tarou", "Yellow Tarou", "Red Tarou">>

AUCTION_TYPES == <<"open", "once_around", "sealed", "fixed_price", "double">>

AUCTION_DISTRIBUTION ==
    [a \in {ARTISTS[i] : i \in 1..5} |->
        CASE a = "Orange Tarou" -> <<3, 2, 2, 2, 3>>
          [] a = "Green Tarou"  -> <<3, 3, 2, 2, 3>>
          [] a = "Blue Tarou"   -> <<3, 3, 3, 2, 3>>
          [] a = "Yellow Tarou" -> <<3, 3, 3, 3, 3>>
          [] a = "Red Tarou"    -> <<3, 3, 3, 3, 4>>]

STARTING_MONEY == 100000

MAX_ROUNDS == 4

ROUND_END_CARD_COUNT == 5

\* A room starts a game with at least this many players.
MIN_PLAYERS == 3
MAX_PLAYERS == 5

ROUND_VALUES == [r \in 1..3 |-> CASE r = 1 -> 30000 [] r = 2 -> 20000 [] r = 3 -> 10000]

ArtistSet == {ARTISTS[i] : i \in 1..Len(ARTISTS)}

ArtistIndex(a) == CHOOSE i \in 1..Len(ARTISTS) : ARTISTS[i] = a

Players == 0..(NumPlayers - 1)

RECURSIVE Repeat(_, _)
Repeat(x, n) == IF n <= 0 THEN <<>> ELSE <<x>> \o Repeat(x, n - 1)

RECURSIVE TypesOfArtist(_, _)
\* The auction types of one artist's cards, in the order create_deck emits them.
TypesOfArtist(dist, t) ==
    IF t > Len(dist) THEN <<>>
    ELSE Repeat(AUCTION_TYPES[t], dist[t]) \o TypesOfArtist(dist, t + 1)

RECURSIVE ArtistTypePairs(_)
ArtistTypePairs(ai) ==
    IF ai > Len(ARTISTS) THEN <<>>
    ELSE LET ts == TypesOfArtist(AUCTION_DISTRIBUTION[ARTISTS[ai]], 1)
         IN  [k \in 1..Len(ts) |-> <<ARTISTS[ai], ts[k]>>] \o ArtistTypePairs(ai + 1)

\* The full 70-card deck; card_id is the position (from 0) in creation order.
create_deck ==
    LET pairs == ArtistTypePairs(1)
    IN  [k \in 1..Len(pairs) |->
            [card_id |-> k - 1, artist |-> pairs[k][1], auction_type |-> pairs[k][2]]]

CardOf(id) == create_deck[id + 1]

\* ------------------------------------------------------------------ auction.py

WAITING_FOR_BIDS == "waiting_for_bids"
WAITING_FOR_PRICE == "waiting_for_price"
WAITING_FOR_ACCEPT == "waiting_for_accept"
RESOLVED == "resolved"

NoError == ""

AuctionResult(winner, price, seller) ==
    [winner_index |-> winner, price |-> price, seller_index |-> seller]

\* Auction.__init__ and __post_init__.
Auction(auction_type, seller_index, card, num_players, double_card) ==
    [auction_type |-> auction_type,
     seller_index |-> seller_index,
     card |-> card,
     num_players |-> num_players,
     double_card |-> double_card,
     state |-> IF auction_type = "fixed_price" THEN WAITING_FOR_PRICE
               ELSE WAITING_FOR_BIDS,
     current_bid |-> 0,
     current_bidder |-> -1,
     fixed_price |-> 0,
     bids |-> <<>>,
     passed |-> {},
     current_turn_index |-> -1,
     sealed_bids_received |-> 0]

SetBid(bids, p, amount) ==
    [q \in (DOMAIN bids) \cup {p} |-> IF q = p THEN amount ELSE bids[q]]

get_next_player(a, from_index) ==
    LET steps == {i \in 1..(a.num_players - 1) :
                     ((from_index + i) % a.num_players) \notin a.passed}
    IN  IF steps = {} THEN -1
        ELSE (from_index + (CHOOSE i \in steps : \A j \in steps : i <= j))
                 % a.num_players

get_can_act_player(a) ==
    IF a.state = RESOLVED THEN -1
    ELSE IF a.auction_type = "open" THEN -1
    ELSE IF a.auction_type = "once_around" THEN a.current_turn_index
    ELSE IF a.auction_type = "sealed" THEN -1
    ELSE IF a.auction_type = "fixed_price"
         THEN IF a.state = WAITING_FOR_PRICE THEN a.seller_index
              ELSE a.current_turn_index
    ELSE -1

\* Each method below yields [a |-> the auction afterwards, error |-> message
\* or NoError, result |-> AuctionResult or None], as far as the method has them.

\* --- Open auction
open_bid_late_check(a, player_index, amount) ==
    IF a.auction_type # "open" THEN [a |-> a, error |-> "Wrong auction type"]
    ELSE IF player_index = a.seller_index THEN [a |-> a, error |-> "Seller cannot bid"]
    ELSE IF amount <= a.current_bid THEN [a |-> a, error |-> "Bid must be higher"]
    ELSE LET b == [a EXCEPT !.current_bid = amount,
                            !.current_bidder = player_index,
                            !.bids = SetBid(a.bids, player_index, amount)]
         IN  IF amount % 1000 # 0
             THEN [a |-> b, error |-> "Bid must be in multiples of 1000"]
             ELSE [a |-> b, error |-> NoError]

open_bid_allows_equal(a, player_index, amount) ==
    IF a.auction_type # "open" THEN [a |-> a, error |-> "Wrong auction type"]
    ELSE IF player_index = a.seller_index THEN [a |-> a, error |-> "Seller cannot bid"]
    ELSE IF amount < a.current_bid THEN [a |-> a, error |-> "Bid must be higher"]
    ELSE IF amount % 1000 # 0
         THEN [a |-> a, error |-> "Bid must be in multiples of 1000"]
    ELSE [a |-> [a EXCEPT !.current_bid = amount,
                          !.current_bidder = player_index,
                          !.bids = SetBid(a.bids, player_index, amount)],
          error |-> NoError]

open_bid(a, player_index, amount) ==
    IF a.auction_type # "open" THEN [a |-> a, error |-> "Wrong auction type"]
    ELSE IF player_index = a.seller_index THEN [a |-> a, error |-> "Seller cannot bid"]
    ELSE IF amount <= a.current_bid THEN [a |-> a, error |-> "Bid must be higher"]
    ELSE IF amount % 1000 # 0
         THEN [a |-> a, error |-> "Bid must be in multiples of 1000"]
    ELSE [a |-> [a EXCEPT !.current_bid = amount,
                          !.current_bidder = player_index,
                          !.bids = SetBid(a.bids, player_index, amount)],
          error |-> NoError]

open_pass(a, player_index) ==
    [a EXCEPT !.passed = a.passed \cup {player_index}]

OpenWinner(a) ==
    IF a.current_bidder = -1
    THEN AuctionResult(a.seller_index, 0, a.seller_index)
    ELSE AuctionResult(a.current_bidder, a.current_bid, a.seller_index)

check_open_resolved_any_last(a) ==
    LET active == {i \in 0..(a.num_players - 1) :
                      i # a.seller_index /\ i \notin a.passed}
    IN  IF Cardinality(active) <= 1
        THEN [a |-> [a EXCEPT !.state = RESOLVED], result |-> OpenWinner(a)]
        ELSE [a |-> a, result |-> None]

check_open_resolved(a) ==
    LET active == {i \in 0..(a.num_players - 1) :
                      i # a.seller_index /\ i \notin a.passed}
    IN  IF \/ Cardinality(active) = 0
           \/ /\ Cardinality(active) = 1
              /\ active = {a.current_bidder}
              /\ a.current_bid > 0
        THEN [a |-> [a EXCEPT !.state = RESOLVED], result |-> OpenWinner(a)]
        ELSE [a |-> a, result |-> None]

\* --- Once around
start_once_around(a) ==
    [a EXCEPT !.current_turn_index = get_next_player(a, a.seller_index),
              !.state = WAITING_FOR_BIDS]

once_around_bid(a, player_index, amount) ==
    IF player_index # a.current_turn_index THEN [a |-> a, error |-> "Not your turn"]
    ELSE IF amount <= a.current_bid THEN [a |-> a, error |-> "Bid must be higher"]
    ELSE IF amount % 1000 # 0
         THEN [a |-> a, error |-> "Bid must be in multiples of 1000"]
    ELSE LET b == [a EXCEPT !.current_bid = amount,
                            !.current_bidder = player_index,
                            !.bids = SetBid(a.bids, player_index, amount),
                            !.passed = a.passed \cup {player_index}]
         IN  [a |-> [b EXCEPT !.current_turn_index = get_next_player(b, player_index)],
              error |-> NoError]

once_around_pass(a, player_index) ==
    LET b == [a EXCEPT !.passed = a.passed \cup {player_index}]
    IN  [b EXCEPT !.current_turn_index = get_next_player(b, player_index)]

check_once_around_resolved(a) ==
    IF a.current_turn_index = a.seller_index \/ a.current_turn_index = -1
    THEN [a |-> [a EXCEPT !.state = RESOLVED], result |-> OpenWinner(a)]
    ELSE [a |-> a, result |-> None]

\* --- Sealed bid
sealed_bid(a, player_index, amount) ==
    IF player_index = a.seller_index THEN [a |-> a, error |-> "Seller cannot bid"]
    ELSE IF player_index \in DOMAIN a.bids
         THEN [a |-> a, error |-> "Already submitted a bid"]
    ELSE IF amount < 0 THEN [a |-> a, error |-> "Invalid bid amount"]
    ELSE IF amount % 1000 # 0
         THEN [a |-> a, error |-> "Bid must be in multiples of 1000"]
    ELSE [a |-> [a EXCEPT !.bids = SetBid(a.bids, player_index, amount),
                          !.sealed_bids_received = a.sealed_bids_received + 1],
          error |-> NoError]

sealed_pass_recounts(a, player_index) ==
    IF player_index # a.seller_index
    THEN [a EXCEPT !.bids = SetBid(a.bids, player_index, 0),
                   !.sealed_bids_received = a.sealed_bids_received + 1]
    ELSE a

sealed_pass(a, player_index) ==
    IF player_index \notin DOMAIN a.bids /\ player_index # a.seller_index
    THEN [a EXCEPT !.bids = SetBid(a.bids, player_index, 0),
                   !.sealed_bids_received = a.sealed_bids_received + 1]
    ELSE a

SealedWinner_highest_index(bids) ==
    CHOOSE p \in DOMAIN bids :
        \A q \in DOMAIN bids :
            \/ bids[p] > bids[q]
            \/ (bids[p] = bids[q] /\ p >= q)

\* max(self.bids.items(), key=lambda x: (x[1], -x[0])): highest amount, then
\* lowest player index.
SealedWinner(bids) ==
    CHOOSE p \in DOMAIN bids :
        \A q \in DOMAIN bids :
            \/ bids[p] > bids[q]
            \/ (bids[p] = bids[q] /\ p <= q)

check_sealed_resolved(a) ==
    LET expected == a.num_players - 1
    IN  IF a.sealed_bids_received >= expected
        THEN LET r == [a EXCEPT !.state = RESOLVED]
             IN  IF DOMAIN a.bids = {} \/ (\A p \in DOMAIN a.bids : a.bids[p] = 0)
                 THEN [a |-> r, result |-> AuctionResult(a.seller_index, 0, a.seller_index)]
                 ELSE LET w == SealedWinner(a.bids)
                      IN  [a |-> r, result |-> AuctionResult(w, a.bids[w], a.seller_index)]
        ELSE [a |-> a, result |-> None]

\* --- Fixed price
set_fixed_price(a, price) ==
    IF a.state # WAITING_FOR_PRICE THEN [a |-> a, error |-> "Not waiting for price"]
    ELSE IF price <= 0 THEN [a |-> a, error |-> "Price must be positive"]
    ELSE IF price % 1000 # 0
         THEN [a |-> a, error |-> "Price must be in multiples of 1000"]
    ELSE [a |-> [a EXCEPT !.fixed_price = price,
                          !.current_bid = price,
                          !.state = WAITING_FOR_ACCEPT,
                          !.current_turn_index = get_next_player(a, a.seller_index)],
          error |-> NoError]

fixed_price_accept(a, player_index) ==
    IF player_index # a.current_turn_index THEN [a |-> a, result |-> None]
    ELSE [a |-> [a EXCEPT !.state = RESOLVED],
          result |-> AuctionResult(player_index, a.fixed_price, a.seller_index)]

fixed_price_decline(a, player_index) ==
    LET b == [a EXCEPT !.passed = a.passed \cup {player_index}]
    IN  [b EXCEPT !.current_turn_index = get_next_player(b, player_index)]

check_fixed_price_resolved_free(a) ==
    IF a.state # WAITING_FOR_ACCEPT THEN [a |-> a, result |-> None]
    ELSE IF a.current_turn_index = -1 \/ a.current_turn_index = a.seller_index
    THEN [a |-> [a EXCEPT !.state = RESOLVED],
          result |-> AuctionResult(a.seller_index, 0, a.seller_index)]
    ELSE [a |-> a, result |-> None]

check_fixed_price_resolved(a) ==
    IF a.state # WAITING_FOR_ACCEPT THEN [a |-> a, result |-> None]
    ELSE IF a.current_turn_index = -1 \/ a.current_turn_index = a.seller_index
    THEN [a |-> [a EXCEPT !.state = RESOLVED],
          result |-> AuctionResult(a.seller_index, a.fixed_price, a.seller_index)]
    ELSE [a |-> a, result |-> None]

\* "if not error: result = check(...)" of process_action.
Checked(step, c) ==
    IF step.error # NoError
    THEN [a |-> step.a, error |-> step.error, result |-> None]
    ELSE [a |-> c.a, error |-> NoError, result |-> c.result]

Silent(c) == [a |-> c.a, error |-> NoError, result |-> c.result]

\* Auction.process_action: (error, result), together with the auction afterwards.
process_action(a, player_index, action, amount) ==
    IF a.auction_type = "open" THEN
        IF action = "bid"
        THEN LET step == open_bid(a, player_index, amount)
             IN  Checked(step, check_open_resolved(step.a))
        ELSE IF action = "pass"
        THEN Silent(check_open_resolved(open_pass(a, player_index)))
        ELSE [a |-> a, error |-> NoError, result |-> None]
    ELSE IF a.auction_type = "once_around" THEN
        IF action = "bid"
        THEN LET step == once_around_bid(a, player_index, amount)
             IN  Checked(step, check_once_around_resolved(step.a))
        ELSE IF action = "pass"
        THEN Silent(check_once_around_resolved(once_around_pass(a, player_index)))
        ELSE [a |-> a, error |-> NoError, result |-> None]
    ELSE IF a.auction_type = "sealed" THEN
        IF action = "bid"
        THEN LET step == sealed_bid(a, player_index, amount)
             IN  Checked(step, check_sealed_resolved(step.a))
        ELSE IF action = "pass"
        THEN Silent(check_sealed_resolved(sealed_pass(a, player_index)))
        ELSE [a |-> a, error |-> NoError, result |-> None]
    ELSE IF a.auction_type = "fixed_price" THEN
        IF action = "set_price"
        THEN LET step == set_fixed_price(a, amount)
             IN  Checked(step, check_fixed_price_resolved(step.a))
        ELSE IF action = "accept"
        THEN Silent(fixed_price_accept(a, player_index))
        ELSE IF action = "pass" \/ action = "decline"
        THEN Silent(check_fixed_price_resolved(fixed_price_decline(a, player_index)))
        ELSE [a |-> a, error |-> NoError, result |-> None]
    ELSE [a |-> a, error |-> NoError, result |-> None]

\* ------------------------------------------------------------------ cards.py (functions)

DEAL_COUNTS ==
    [n \in 3..5 |-> CASE n = 3 -> <<10, 6, 6, 6>>
                      [] n = 4 -> <<9, 4, 4, 4>>
                      [] n = 5 -> <<8, 3, 3, 3>>]

Min(x, y) == IF x <= y THEN x ELSE y

\* deal_cards: count rounds of one card to each player in index order, from the
\* front of the deck, stopping when the deck is empty.
deal_cards(deck, num_players, round_num) ==
    LET count == DEAL_COUNTS[num_players][round_num]
        taken == Min(count * num_players, Len(deck))
        mine(p) == {k \in 1..taken : (k - 1) % num_players = p}
        nth(p, j) == CHOOSE k \in mine(p) : Cardinality({m \in mine(p) : m < k}) = j - 1
    IN  [hands |-> [p \in 0..(num_players - 1) |->
                       [j \in 1..Cardinality(mine(p)) |-> deck[nth(p, j)]]],
         deck |-> SubSeq(deck, taken + 1, Len(deck))]

\* The key of sorted(): more cards first, then the artist's place in ARTISTS.
Before_insertion_order(board, x, y) ==
    \/ board[x] > board[y]
    \/ (board[x] = board[y] /\ ArtistIndex(x) > ArtistIndex(y))

Before(board, x, y) ==
    \/ board[x] > board[y]
    \/ (board[x] = board[y] /\ ArtistIndex(x) < ArtistIndex(y))

RECURSIVE SortArtists(_, _)
SortArtists(board, todo) ==
    IF todo = {} THEN <<>>
    ELSE LET first == CHOOSE x \in todo : \A y \in todo \ {x} : Before(board, x, y)
         IN  <<first>> \o SortArtists(board, todo \ {first})

calculate_round_values(board) ==
    LET sorted_artists == SortArtists(board, {a \in ArtistSet : board[a] > 0})
        rank(a) == CHOOSE r \in 1..Len(sorted_artists) : sorted_artists[r] = a
    IN  [a \in ArtistSet |->
            IF board[a] > 0 /\ rank(a) \in DOMAIN ROUND_VALUES
            THEN ROUND_VALUES[rank(a)] ELSE 0]

\* ------------------------------------------------------------------ ai_player.py

\* The bid decisions of AIBrain. The estimate is max_value * aggression, a
\* float the decision only compares with integers and truncates: it is given
\* as its integer part. A decision is <<bid>>, or <<>> for None (pass).
Max(x, y) == IF x >= y THEN x ELSE y

Floor1000(bid) == (bid \div 1000) * 1000

BID_INCREMENTS == {1000, 2000, 3000, 5000}

decide_bid_open_unrounded(current_bid, my_money, estimate, bid_increment) ==
    LET willingness == Min(estimate, my_money)
        min_bid == current_bid + 1000
        bid == Max(Min(current_bid + bid_increment, willingness), min_bid)
    IN  IF min_bid > willingness THEN <<>>
        ELSE IF bid > my_money THEN <<>>
        ELSE <<bid>>

\* bid_increment: random.choice of BID_INCREMENTS, or 1000 for a hard AI.
decide_bid_open(current_bid, my_money, estimate, bid_increment) ==
    LET willingness == Min(estimate, my_money)
        min_bid == current_bid + 1000
        bid == Floor1000(Max(Min(current_bid + bid_increment, willingness), min_bid))
    IN  IF min_bid > willingness THEN <<>>
        ELSE IF bid > my_money THEN <<>>
        ELSE <<bid>>

\* percent: random.uniform(0.6, 0.9), in hundredths.
decide_bid_once_around(current_bid, my_money, estimate, percent) ==
    LET willingness == Min(estimate, my_money)
        min_bid == Max(current_bid + 1000, 1000)
        bid == Floor1000(Max((willingness * percent) \div 100, min_bid))
    IN  IF min_bid > willingness THEN <<>>
        ELSE IF bid > my_money THEN <<>>
        ELSE <<bid>>

\* percent: random.uniform(0.4, 0.75), in hundredths; the result 0 is a pass.
decide_bid_sealed(my_money, estimate, percent) ==
    LET willingness == Min(estimate, my_money)
        bid == Floor1000(Max((willingness * percent) \div 100, 1000))
    IN  IF willingness < 1000 THEN 0
        ELSE IF bid > my_money THEN 0
        ELSE bid

\* ------------------------------------------------------------------ game.py

Pop(s, i) == SubSeq(s, 1, i) \o SubSeq(s, i + 2, Len(s))

RECURSIVE SumSeq(_, _)
SumSeq(f, k) == IF k = 0 THEN 0 ELSE f[k] + SumSeq(f, k - 1)

RECURSIVE SumOver(_, _)
SumOver(f, S) ==
    IF S = {} THEN 0
    ELSE LET x == CHOOSE y \in S : TRUE IN f[x] + SumOver(f, S \ {x})

Player(hand) == [money |-> STARTING_MONEY, hand |-> hand, paintings |-> <<>>]

\* Game.__init__ followed by Game.start, for a deck as shuffled.  total_payouts
\* is a history field: the sum of all round-end earnings paid so far; so is
\* scorings: the number of times _end_round has scored a round.
start(shuffled) ==
    LET d == deal_cards(shuffled, NumPlayers, 1)
    IN  [players |-> [p \in Players |-> Player(d.hands[p])],
         num_players |-> NumPlayers,
         deck |-> d.deck,
         round_num |-> 1,
         current_turn |-> 0,
         board |-> [a \in ArtistSet |-> 0],
         market |-> [a \in ArtistSet |-> 0],
         current_auction |-> None,
         round_active |-> TRUE,
         game_over |-> FALSE,
         waiting_for_double |-> FALSE,
         double_base_card |-> None,
         double_player_index |-> -1,
         total_payouts |-> 0,
         scorings |-> 0]

_check_round_end(g, artist) == g.board[artist] >= ROUND_END_CARD_COUNT

_end_game(g) == [g EXCEPT !.game_over = TRUE]

_end_round_pays_before_award(g) ==
    LET round_values == calculate_round_values(g.board)
        market == [a \in ArtistSet |-> g.market[a] + round_values[a]]
        earnings == [p \in DOMAIN g.players |->
                        LET ps == g.players[p].paintings
                        IN  SumSeq([k \in 1..Len(ps) |-> g.market[ps[k].artist]], Len(ps))]
        g1 == [g EXCEPT !.round_active = FALSE,
                        !.market = market,
                        !.players = [p \in DOMAIN g.players |->
                                        [g.players[p] EXCEPT
                                            !.money = g.players[p].money + earnings[p],
                                            !.paintings = <<>>]],
                        !.total_payouts = g.total_payouts
                                              + SumOver(earnings, DOMAIN g.players),
                        !.scorings = g.scorings + 1,
                        !.round_num = g.round_num + 1]
    IN  IF g1.round_num > MAX_ROUNDS THEN _end_game(g1)
        ELSE LET d == deal_cards(g1.deck, g1.num_players, g1.round_num)
             IN  [g1 EXCEPT !.board = [a \in ArtistSet |-> 0],
                            !.deck = d.deck,
                            !.players = [p \in DOMAIN g.players |->
                                            [g1.players[p] EXCEPT
                                                !.hand = g1.players[p].hand \o d.hands[p]]],
                            !.round_active = TRUE,
                            !.current_turn = 0]

_end_round(g) ==
    LET round_values == calculate_round_values(g.board)
        market == [a \in ArtistSet |-> g.market[a] + round_values[a]]
        earnings == [p \in DOMAIN g.players |->
                        LET ps == g.players[p].paintings
                        IN  SumSeq([k \in 1..Len(ps) |-> market[ps[k].artist]], Len(ps))]
        g1 == [g EXCEPT !.round_active = FALSE,
                        !.market = market,
                        !.players = [p \in DOMAIN g.players |->
                                        [g.players[p] EXCEPT
                                            !.money = g.players[p].money + earnings[p],
                                            !.paintings = <<>>]],
                        !.total_payouts = g.total_payouts
                                              + SumOver(earnings, DOMAIN g.players),
                        !.scorings = g.scorings + 1,
                        !.round_num = g.round_num + 1]
    IN  IF g1.round_num > MAX_ROUNDS THEN _end_game(g1)
        ELSE LET d == deal_cards(g1.deck, g1.num_players, g1.round_num)
             IN  [g1 EXCEPT !.board = [a \in ArtistSet |-> 0],
                            !.deck = d.deck,
                            !.players = [p \in DOMAIN g.players |->
                                            [g1.players[p] EXCEPT
                                                !.hand = g1.players[p].hand \o d.hands[p]]],
                            !.round_active = TRUE,
                            !.current_turn = 0]

_advance_turn_to_neighbour(g) ==
    LET has_cards == \E p \in DOMAIN g.players : Len(g.players[p].hand) > 0
    IN  IF ~has_cards THEN _end_round(g)
        ELSE [g EXCEPT !.current_turn = (g.current_turn + 1) % g.num_players]

_advance_turn(g) ==
    LET has_cards == \E p \in DOMAIN g.players : Len(g.players[p].hand) > 0
        steps == {i \in 1..g.num_players :
                     Len(g.players[(g.current_turn + i) % g.num_players].hand) > 0}
        first == CHOOSE i \in steps : \A j \in steps : i <= j
    IN  IF ~has_cards THEN _end_round(g)
        ELSE [g EXCEPT !.current_turn = (g.current_turn + first) % g.num_players]

_start_auction(g, seller_index, card, auction_type, double_card) ==
    LET a == Auction(auction_type, seller_index, card, g.num_players, double_card)
    IN  [g EXCEPT !.current_auction =
                      IF auction_type = "once_around" THEN start_once_around(a) ELSE a]

Bump(g, artist) == [g EXCEPT !.board[artist] = g.board[artist] + 1]

_play_single_card_kept_in_hand(g, player_index, card, card_index) ==
    LET g2 == Bump(g, card.artist)
    IN  IF _check_round_end(g2, card.artist) THEN _end_round(g2)
        ELSE _start_auction(g2, player_index, card, card.auction_type, None)

_play_single_card(g, player_index, card, card_index) ==
    LET g1 == [g EXCEPT !.players[player_index].hand =
                            Pop(g.players[player_index].hand, card_index)]
        g2 == Bump(g1, card.artist)
    IN  IF _check_round_end(g2, card.artist) THEN _end_round(g2)
        ELSE _start_auction(g2, player_index, card, card.auction_type, None)

EffectiveType_as_printed(card2) == card2.auction_type

EffectiveType(card2) ==
    IF card2.auction_type = "double" THEN "open" ELSE card2.auction_type

_play_double_checked_once(g, player_index, card1, idx1, card2, idx2) ==
    LET hi == IF idx1 > idx2 THEN idx1 ELSE idx2
        lo == IF idx1 > idx2 THEN idx2 ELSE idx1
        g1 == [g EXCEPT !.players[player_index].hand =
                            Pop(Pop(g.players[player_index].hand, hi), lo)]
        g3 == Bump(Bump(g1, card1.artist), card1.artist)
    IN  IF _check_round_end(g3, card1.artist) THEN _end_round(g3)
        ELSE _start_auction(g3, player_index, card1, EffectiveType(card2), card2)

_play_double(g, player_index, card1, idx1, card2, idx2) ==
    LET hi == IF idx1 > idx2 THEN idx1 ELSE idx2
        lo == IF idx1 > idx2 THEN idx2 ELSE idx1
        g1 == [g EXCEPT !.players[player_index].hand =
                            Pop(Pop(g.players[player_index].hand, hi), lo)]
        g2 == Bump(g1, card1.artist)
        g3 == Bump(g2, card1.artist)
    IN  IF _check_round_end(g2, card1.artist) THEN _end_round(g2)
        ELSE IF _check_round_end(g3, card1.artist) THEN _end_round(g3)
        ELSE _start_auction(g3, player_index, card1, EffectiveType(card2), card2)

\* The entry points yield [g |-> the game afterwards, error |-> the message of
\* the error sent to the actor or NoError, sent |-> the kinds of notification
\* the entry point itself sends, sleeping |-> whether the call is left at the
\* pause of _resolve_auction, its _advance_turn still to run].
Reject(g, message) ==
    [g |-> g, error |-> message, sent |-> {"error"}, sleeping |-> FALSE]

Done(g, sent) == [g |-> g, error |-> NoError, sent |-> sent, sleeping |-> FALSE]

handle_play_card(g, player_index, card_index, double_card_index) ==
    IF g.game_over \/ ~g.round_active THEN Reject(g, "Game not active")
    ELSE IF g.current_auction # None THEN Reject(g, "Auction in progress")
    ELSE IF player_index # g.current_turn THEN Reject(g, "Not your turn")
    ELSE LET hand == g.players[player_index].hand IN
    IF card_index < 0 \/ card_index >= Len(hand) THEN Reject(g, "Invalid card index")
    ELSE LET card == hand[card_index + 1] IN
    IF card.auction_type = "double" /\ double_card_index >= 0 THEN
        IF double_card_index >= Len(hand) \/ double_card_index = card_index
        THEN Reject(g, "Invalid double card index")
        ELSE LET second_card == hand[double_card_index + 1] IN
             IF second_card.artist # card.artist
             THEN Reject(g, "Double card must be same artist")
             ELSE Done(_play_double(g, player_index, card, card_index,
                                    second_card, double_card_index), {})
    ELSE IF card.auction_type = "double" THEN
        LET has_match == \E i \in 0..(Len(hand) - 1) :
                             hand[i + 1].artist = card.artist /\ i # card_index
        IN  IF has_match
            THEN Done([g EXCEPT !.waiting_for_double = TRUE,
                                !.double_base_card = card,
                                !.double_player_index = player_index,
                                !.players[player_index].hand = Pop(hand, card_index)],
                      {"double_request"})
            ELSE Done(_play_single_card(g, player_index,
                                        [card EXCEPT !.auction_type = "open"],
                                        card_index), {})
    ELSE Done(_play_single_card(g, player_index, card, card_index), {})

handle_double_response_any_player(g, player_index, second_card_index) ==
    IF ~g.waiting_for_double THEN Done(g, {})
    ELSE
    LET hand == g.players[player_index].hand
        base_card == g.double_base_card
        g0 == [g EXCEPT !.waiting_for_double = FALSE,
                        !.double_base_card = None,
                        !.double_player_index = -1]
        single == LET g1 == Bump(g0, base_card.artist)
                  IN  IF _check_round_end(g1, base_card.artist) THEN _end_round(g1)
                      ELSE _start_auction(g1, player_index, base_card, "open", None)
    IN  IF second_card_index >= 0 /\ second_card_index < Len(hand)
        THEN LET second_card == hand[second_card_index + 1] IN
             IF second_card.artist = base_card.artist
             THEN LET g1 == [g0 EXCEPT !.players[player_index].hand =
                                           Pop(hand, second_card_index)]
                      g2 == Bump(g1, base_card.artist)
                      g3 == Bump(g2, base_card.artist)
                  IN  IF _check_round_end(g2, base_card.artist)
                      THEN Done(_end_round(g2), {})
                      ELSE IF _check_round_end(g3, base_card.artist)
                      THEN Done(_end_round(g3), {})
                      ELSE Done(_start_auction(g3, player_index, base_card,
                                               EffectiveType(second_card), second_card),
                                {})
             ELSE Done(single, {})
        ELSE Done(single, {})

handle_double_response(g, player_index, second_card_index) ==
    IF ~g.waiting_for_double \/ player_index # g.double_player_index THEN Done(g, {})
    ELSE
    LET hand == g.players[player_index].hand
        base_card == g.double_base_card
        g0 == [g EXCEPT !.waiting_for_double = FALSE,
                        !.double_base_card = None,
                        !.double_player_index = -1]
        single == LET g1 == Bump(g0, base_card.artist)
                  IN  IF _check_round_end(g1, base_card.artist) THEN _end_round(g1)
                      ELSE _start_auction(g1, player_index, base_card, "open", None)
    IN  IF second_card_index >= 0 /\ second_card_index < Len(hand)
        THEN LET second_card == hand[second_card_index + 1] IN
             IF second_card.artist = base_card.artist
             THEN LET g1 == [g0 EXCEPT !.players[player_index].hand =
                                           Pop(hand, second_card_index)]
                      g2 == Bump(g1, base_card.artist)
                      g3 == Bump(g2, base_card.artist)
                  IN  IF _check_round_end(g2, base_card.artist)
                      THEN Done(_end_round(g2), {})
                      ELSE IF _check_round_end(g3, base_card.artist)
                      THEN Done(_end_round(g3), {})
                      ELSE Done(_start_auction(g3, player_index, base_card,
                                               EffectiveType(second_card), second_card),
                                {})
             ELSE Done(single, {})
        ELSE Done(single, {})

_resolve_auction_seller_unpaid(g, result) ==
    LET w == result.winner_index
        s == result.seller_index
        card_info == g.current_auction.card
        paid == IF w # s
                THEN [g.players EXCEPT ![w].money = g.players[w].money - result.price]
                ELSE g.players
    IN  [g EXCEPT !.players = [paid EXCEPT ![w].paintings =
                                               Append(paid[w].paintings, card_info)],
                  !.current_auction = None]

\* _resolve_auction up to its pause: the money and the painting change hands and
\* the auction is discarded; _advance_turn runs when the pause is over.
_resolve_auction(g, result) ==
    LET w == result.winner_index
        s == result.seller_index
        card_info == g.current_auction.card
        paid == IF w # s
                THEN [g.players EXCEPT ![w].money = g.players[w].money - result.price,
                                       ![s].money = g.players[s].money + result.price]
                ELSE g.players
    IN  [g EXCEPT !.players = [paid EXCEPT ![w].paintings =
                                               Append(paid[w].paintings, card_info)],
                  !.current_auction = None]

Settle_unadvanced(g, pa, sent) ==
    LET g1 == [g EXCEPT !.current_auction = pa.a]
    IN  IF pa.result # None
        THEN Done(_resolve_auction(g1, pa.result), sent)
        ELSE Done(g1, sent)

\* What the auction entry points do with a processed action.  process_action
\* works on the auction object in place, so whatever it did to the auction stays
\* done, also when it reports an error.
Settle(g, pa, sent) ==
    LET g1 == [g EXCEPT !.current_auction = pa.a]
    IN  IF pa.result # None
        THEN [g |-> _resolve_auction(g1, pa.result), error |-> NoError,
              sent |-> sent, sleeping |-> TRUE]
        ELSE Done(g1, sent)

handle_bid_unfunded(g, player_index, amount) ==
    IF g.current_auction = None THEN Done(g, {})
    ELSE LET pa == process_action(g.current_auction, player_index, "bid", amount) IN
    IF pa.error # NoError THEN Reject([g EXCEPT !.current_auction = pa.a], pa.error)
    ELSE Settle(g, pa, IF pa.a.auction_type # "sealed" THEN {"bid_update"}
                       ELSE {"bid_confirmed"})

handle_bid(g, player_index, amount) ==
    IF g.current_auction = None THEN Done(g, {})
    ELSE IF amount > g.players[player_index].money THEN Reject(g, "Not enough money")
    ELSE LET pa == process_action(g.current_auction, player_index, "bid", amount) IN
    IF pa.error # NoError THEN Reject([g EXCEPT !.current_auction = pa.a], pa.error)
    ELSE Settle(g, pa, IF pa.a.auction_type # "sealed" THEN {"bid_update"}
                       ELSE {"bid_confirmed"})

handle_pass(g, player_index) ==
    IF g.current_auction = None THEN Done(g, {})
    ELSE LET pa == process_action(g.current_auction, player_index, "pass", 0) IN
    IF pa.error # NoError THEN Reject([g EXCEPT !.current_auction = pa.a], pa.error)
    ELSE Settle(g, pa, IF pa.a.auction_type # "sealed" THEN {"bid_update"} ELSE {})

handle_accept(g, player_index) ==
    IF g.current_auction = None THEN Done(g, {})
    ELSE IF g.current_auction.auction_type # "fixed_price" THEN Done(g, {})
    ELSE IF g.current_auction.fixed_price > g.players[player_index].money
         THEN Reject(g, "Not enough money")
    ELSE LET pa == process_action(g.current_auction, player_index, "accept", 0) IN
    IF pa.error # NoError THEN Reject([g EXCEPT !.current_auction = pa.a], pa.error)
    ELSE Settle(g, pa, {})

handle_set_price(g, player_index, price) ==
    IF g.current_auction = None THEN Done(g, {})
    ELSE IF g.current_auction.auction_type # "fixed_price" THEN Done(g, {})
    ELSE IF player_index # g.current_auction.seller_index THEN Done(g, {})
    ELSE LET pa == process_action(g.current_auction, player_index, "set_price", price) IN
    IF pa.error # NoError THEN Reject([g EXCEPT !.current_auction = pa.a], pa.error)
    ELSE Settle(g, pa, {"bid_update"})

\* The messages the auction entry points send before any resolution: to is the
\* receiving player; an error carries its text, a bid_update the acting player,
\* the amount and the receiver's can_act flag, a bid_confirmed the amount.
Msg(to, kind, player, amount, can_act, text) ==
    [to |-> to, kind |-> kind, player |-> player, amount |-> amount,
     can_act |-> can_act, text |-> text]

ErrorMsg(to, text) == Msg(to, "error", to, 0, FALSE, text)

handle_bid_sends_update_to_all(g, player_index, amount) ==
    IF g.current_auction = None THEN {}
    ELSE IF amount > g.players[player_index].money
    THEN {ErrorMsg(player_index, "Not enough money")}
    ELSE LET pa == process_action(g.current_auction, player_index, "bid", amount) IN
    IF pa.error # NoError THEN {ErrorMsg(player_index, pa.error)}
    ELSE {Msg(i, "bid_update", player_index, amount,
              IF pa.a.auction_type = "open"
              THEN i # pa.a.seller_index /\ i # player_index /\ i \notin pa.a.passed
              ELSE i = get_can_act_player(pa.a),
              "") : i \in DOMAIN g.players}

handle_bid_sends(g, player_index, amount) ==
    IF g.current_auction = None THEN {}
    ELSE IF amount > g.players[player_index].money
    THEN {ErrorMsg(player_index, "Not enough money")}
    ELSE LET pa == process_action(g.current_auction, player_index, "bid", amount) IN
    IF pa.error # NoError THEN {ErrorMsg(player_index, pa.error)}
    ELSE IF pa.a.auction_type # "sealed"
    THEN {Msg(i, "bid_update", player_index, amount,
              IF pa.a.auction_type = "open"
              THEN i # pa.a.seller_index /\ i # player_index /\ i \notin pa.a.passed
              ELSE i = get_can_act_player(pa.a),
              "") : i \in DOMAIN g.players}
    ELSE {Msg(player_index, "bid_confirmed", player_index, amount, FALSE, "")}

handle_pass_sends(g, player_index) ==
    IF g.current_auction = None THEN {}
    ELSE LET pa == process_action(g.current_auction, player_index, "pass", 0) IN
    IF pa.error # NoError THEN {ErrorMsg(player_index, pa.error)}
    ELSE IF pa.a.auction_type # "sealed"
    THEN {Msg(i, "bid_update", player_index, 0,
              IF pa.a.auction_type = "open"
              THEN i # pa.a.seller_index /\ i \notin pa.a.passed
              ELSE i = get_can_act_player(pa.a),
              "") : i \in DOMAIN g.players}
    ELSE {}

\* ------------------------------------------------------------------ the room

VARIABLES
    game,     \* the room's Game object
    paused,   \* the players whose call is at the pause of _resolve_auction
    auc,      \* an Auction object driven on its own (AuctionSpec, DriveSpec)
    log,      \* the calls that changed that auction, in order (history)
    tasks,    \* the coroutines driving the AI players of that auction (DriveSpec)
    calc      \* one run of a function of cards.py or ai_player.py: inputs, result

vars == <<game, paused, auc, log, tasks, calc>>

\* Shuffles of the deck, as the ids of their first cards: the modelled games deal
\* from the first DeckSize cards of one of them.
DeckOrders ==
    { <<0, 3, 5, 7, 1, 4>>,
      <<9, 10, 0, 3, 11, 1>> }

Decks ==
    { [k \in 1..Min(DeckSize, Len(o)) |-> CardOf(o[k])] : o \in DeckOrders }

\* The amounts players submit: in and out of the legal range, in and out of funds.
Amounts ==
    {-1000, 500} \cup {1000 * k : k \in 0..MaxBidK}
        \cup {STARTING_MONEY, STARTING_MONEY + 1000}

\* Card indices players submit: -1 (none), the indices of a hand, one past it.
Indices == -1..((DeckSize + NumPlayers - 1) \div NumPlayers)

Init ==
    /\ game \in {start(d) : d \in Decks}
    /\ paused = {}
    /\ auc = None
    /\ log = <<>>
    /\ tasks = {}
    /\ calc = None

\* A call made on the connection of player p; a connection delivers its next
\* message only when the call for the previous one has returned.
Call(p, r) ==
    /\ p \notin paused
    /\ game' = r.g
    /\ paused' = IF r.sleeping THEN paused \cup {p} ELSE paused
    /\ UNCHANGED <<auc, log, tasks, calc>>

PlayCard(cards, seconds) ==
    \E p \in Players, ci \in cards, di \in seconds :
        Call(p, handle_play_card(game, p, ci, di))

DoubleResponse(seconds) ==
    \E p \in Players, si \in seconds :
        Call(p, handle_double_response(game, p, si))

Bid(amounts) ==
    \E p \in Players, amount \in amounts : Call(p, handle_bid(game, p, amount))

Pass == \E p \in Players : Call(p, handle_pass(game, p))

Accept == \E p \in Players : Call(p, handle_accept(game, p))

SetPrice(amounts) ==
    \E p \in Players, price \in amounts : Call(p, handle_set_price(game, p, price))

\* The pause of _resolve_auction ends and the call goes on to _advance_turn.
AdvanceTurn ==
    \E p \in paused :
        /\ game' = _advance_turn(game)
        /\ paused' = paused \ {p}
        /\ UNCHANGED <<auc, log, tasks, calc>>

Next ==
    \/ PlayCard(Indices, Indices)
    \/ DoubleResponse(Indices)
    \/ Bid(Amounts)
    \/ Pass
    \/ Accept
    \/ SetPrice(Amounts)
    \/ AdvanceTurn

Spec == Init /\ [][Next]_vars

\* ------------------------------------------------------------------ the last round

\* A shuffle whose first 21 cards, seven a player, are played out in the first
\* three rounds as Opening tells, leaving two Red Tarou cards in each hand.
EndgameDeck ==
    LET o == <<9, 10, 2, 0, 1, 23, 12, 22, 14, 36, 13, 37, 25, 26, 27,
               66, 67, 68, 54, 55, 56>>
    IN  [k \in 1..Len(o) |-> CardOf(o[k])]

\* The calls of the opening.  A turn with an auction: the turn holder plays the
\* first card of the hand, with the next card as its pair where paired; the other
\* two players pass; the pause ends and the turn moves on.
Play(p, paired) ==
    <<[op |-> "play_card", player |-> p, card_index |-> 0,
       double_card_index |-> IF paired THEN 1 ELSE -1]>>

Turn(p, paired) ==
    Play(p, paired)
        \o <<[op |-> "pass", player |-> (p + 1) % NumPlayers],
             [op |-> "pass", player |-> (p + 2) % NumPlayers],
             [op |-> "advance"]>>

\* Rounds 1 to 3: each ends with the fifth card of one artist, played by player 2.
Opening ==
    Turn(0, TRUE) \o Turn(1, TRUE) \o Play(2, FALSE)
        \o Turn(0, FALSE) \o Turn(1, TRUE) \o Play(2, TRUE)
        \o Turn(0, TRUE) \o Turn(1, FALSE) \o Play(2, TRUE)

\* The game after one call of the opening.
Replayed(g, call) ==
    IF call.op = "play_card"
    THEN handle_play_card(g, call.player, call.card_index, call.double_card_index).g
    ELSE IF call.op = "pass" THEN handle_pass(g, call.player).g
    ELSE _advance_turn(g)

Replay(g, calls) ==
    LET after[k \in 0..Len(calls)] ==
            IF k = 0 THEN g ELSE Replayed(after[k - 1], calls[k])
    IN  after[Len(calls)]

EndgameInit ==
    /\ game = Replay(start(EndgameDeck), Opening)
    /\ paused = {}
    /\ auc = None
    /\ log = <<>>
    /\ tasks = {}
    /\ calc = None

EndgameNext ==
    \/ PlayCard(-1..2, -1..2)
    \/ DoubleResponse(-1..2)
    \/ Bid({1000})
    \/ Pass
    \/ Accept
    \/ SetPrice({1000})
    \/ AdvanceTurn

EndgameSpec == EndgameInit /\ [][EndgameNext]_vars

\* ------------------------------------------------------------------ the pairs

\* Shuffles that deal player 0 the double-typed card 9 with a second card of
\* every auction type of the same artist (0 open, 3 once around, 5 sealed,
\* 7 fixed price, 10 double) or a card of another artist (12); player 1 is
\* dealt the double-typed card 22 alone, player 2 an open card.
PairDecks ==
    { [k \in 1..4 |-> CardOf(<<9, 22, 25, second>>[k])] :
          second \in {0, 3, 5, 7, 10, 12} }

PairInit ==
    /\ game \in {start(d) : d \in PairDecks}
    /\ paused = {}
    /\ auc = None
    /\ log = <<>>
    /\ tasks = {}
    /\ calc = None

PairNext ==
    \/ PlayCard(Indices, Indices)
    \/ DoubleResponse(Indices)
    \/ Bid({1000})
    \/ Pass
    \/ Accept
    \/ SetPrice({1000})
    \/ AdvanceTurn

PairSpec == PairInit /\ [][PairNext]_vars

\* ------------------------------------------------------------------ five players

\* A game of five players on the full deck. Rounds 1 to 3 deal 8 + 3 + 3 cards
\* to each player, the whole deck, so the deal of round 4 finds no card.
start_with(shuffled, num_players) ==
    LET d == deal_cards(shuffled, num_players, 1)
    IN  [players |-> [p \in 0..(num_players - 1) |-> Player(d.hands[p])],
         num_players |-> num_players,
         deck |-> d.deck,
         round_num |-> 1,
         current_turn |-> 0,
         board |-> [a \in ArtistSet |-> 0],
         market |-> [a \in ArtistSet |-> 0],
         current_auction |-> None,
         round_active |-> TRUE,
         game_over |-> FALSE,
         waiting_for_double |-> FALSE,
         double_base_card |-> None,
         double_player_index |-> -1,
         total_payouts |-> 0,
         scorings |-> 0]

\* A shuffle of the 70 cards on which player 0 can play a pair at every turn.
FiveDeck ==
    LET o == <<9, 39, 40, 41, 42, 0, 56, 57, 58, 59, 22, 43, 61, 26, 27,
               12, 60, 15, 44, 45, 36, 62, 3, 7, 18, 25, 14, 4, 8, 19,
               66, 16, 5, 11, 20, 54, 2, 6, 17, 21,
               10, 24, 30, 33, 37, 1, 28, 31, 34, 38, 67, 29, 32, 35, 46,
               55, 47, 50, 53, 65, 23, 48, 51, 63, 68, 13, 49, 52, 64, 69>>
    IN  [k \in 1..Len(o) |-> CardOf(o[k])]

\* A turn with an auction that every other player passes, clockwise.
FiveTurn(p, paired) ==
    Play(p, paired)
        \o [k \in 1..(MAX_PLAYERS - 1) |->
               [op |-> "pass", player |-> (p + k) % MAX_PLAYERS]]
        \o <<[op |-> "advance"]>>

\* Every player in turn: player 0 a pair, the others one card each.
FiveLap ==
    FiveTurn(0, TRUE) \o FiveTurn(1, FALSE) \o FiveTurn(2, FALSE)
        \o FiveTurn(3, FALSE) \o FiveTurn(4, FALSE)

\* Round 1 ends on player 1's third card, round 2 on player 1's second card;
\* round 3 is played up to player 4's card.
FiveOpening ==
    FiveLap \o FiveLap \o FiveTurn(0, TRUE) \o Play(1, FALSE)
        \o FiveLap \o FiveTurn(0, TRUE) \o Play(1, FALSE)
        \o FiveLap

\* log holds the calls of the opening made so far. After the opening the players
\* go on as they began: the turn holder plays the first card of the hand, with
\* the next card where the two make a pair, and the others bid 1000 or pass.
FiveInit ==
    /\ game = start_with(FiveDeck, MAX_PLAYERS)
    /\ paused = {}
    /\ auc = None
    /\ log = <<>>
    /\ tasks = {}
    /\ calc = None

Opened == Len(log) = Len(FiveOpening)

\* The next call of the opening.
FiveOpen ==
    /\ ~Opened
    /\ game' = Replayed(game, FiveOpening[Len(log) + 1])
    /\ log' = Append(log, FiveOpening[Len(log) + 1])
    /\ UNCHANGED <<paused, auc, tasks, calc>>

Seats == 0..(MAX_PLAYERS - 1)

FivePlayCard(cards, seconds) ==
    \E p \in Seats, ci \in cards, di \in seconds :
        Opened /\ Call(p, handle_play_card(game, p, ci, di))

FiveBid(amounts) ==
    \E p \in Seats, amount \in amounts :
        Opened /\ Call(p, handle_bid(game, p, amount))

FivePass == \E p \in Seats : Opened /\ Call(p, handle_pass(game, p))

FiveNext ==
    \/ FiveOpen
    \/ FivePlayCard({0}, {1})
    \/ FiveBid({1000})
    \/ FivePass
    \/ AdvanceTurn

FiveSpec == FiveInit /\ [][FiveNext]_vars

\* ------------------------------------------------------------------ one auction

\* An auction as _start_auction creates it, driven through process_action by
\* the calls handle_bid, handle_pass, handle_accept and handle_set_price forward.
AuctionAmounts == {-1000, 0, 500, 1000, 3000, 5000, 7000}

AuctionActions == {"bid", "pass", "accept", "set_price"}

NewAuction(auction_type, seller_index, num_players) ==
    LET a == Auction(auction_type, seller_index, CardOf(0), num_players, None)
    IN  IF auction_type = "once_around" THEN start_once_around(a) ELSE a

\* handle_accept and handle_set_price forward only these calls.
Forwarded(a, player_index, action) ==
    /\ action = "accept" => a.auction_type = "fixed_price"
    /\ action = "set_price" =>
           (a.auction_type = "fixed_price" /\ player_index = a.seller_index)

AuctionInit ==
    /\ auc \in {NewAuction(t, s, n) :
                   t \in {"open", "once_around", "sealed", "fixed_price"},
                   s \in 0..(MaxAuctionPlayers - 1),
                   n \in MIN_PLAYERS..MaxAuctionPlayers}
    /\ auc.seller_index < auc.num_players
    /\ log = <<>>
    /\ tasks = {}
    /\ calc = None
    /\ game = None
    /\ paused = {}

\* One call that process_action accepts and that changes the auction; the game
\* discards a resolved auction, so none follows a resolution.
Act ==
    /\ auc.state # RESOLVED
    /\ Len(log) < MaxLog
    /\ \E p \in 0..(auc.num_players - 1), action \in AuctionActions,
          amount \in AuctionAmounts :
          LET pa == process_action(auc, p, action, IF action = "bid" \/ action = "set_price"
                                                    THEN amount ELSE 0)
          IN  /\ Forwarded(auc, p, action)
              /\ action \in {"pass", "accept"} => amount = 0
              /\ pa.error = NoError
              /\ pa.a # auc
              /\ auc' = pa.a
              /\ log' = Append(log, [player |-> p, action |-> action,
                                     amount |-> amount, result |-> pa.result])
    /\ UNCHANGED <<game, paused, tasks, calc>>

AuctionNext == Act

AuctionSpec == AuctionInit /\ [][AuctionNext]_vars

\* ------------------------------------------------------------------ one scoring

\* The scoring of _end_round on its own: the board of a round that has ended is
\* ranked and the awards are added to the market values.
MaxCount == 5

Boards == [ArtistSet -> 0..MaxCount]

Markets ==
    { [a \in ArtistSet |-> 0],
      [a \in ArtistSet |-> 10000 * ArtistIndex(a)] }

ScoreInit ==
    /\ calc \in {[board |-> b, market |-> m, market_before |-> m,
                  round_values |-> None] :
                    b \in Boards, m \in Markets}
    /\ game = None
    /\ paused = {}
    /\ auc = None
    /\ log = <<>>
    /\ tasks = {}

Score ==
    /\ calc.round_values = None
    /\ LET round_values == calculate_round_values(calc.board)
       IN  calc' = [calc EXCEPT
                       !.round_values = round_values,
                       !.market = [a \in ArtistSet |-> @[a] + round_values[a]]]
    /\ UNCHANGED <<game, paused, auc, log, tasks>>

ScoreNext == Score

ScoreSpec == ScoreInit /\ [][ScoreNext]_vars

\* ------------------------------------------------------------------ the deals

\* The deals of a whole game on their own: start() deals round 1 from a shuffle
\* of the full deck, _end_round deals each later round from what is left, and
\* every deal extends the hands.
MaxShift == 9

Rotate(s, k) == SubSeq(s, k + 1, Len(s)) \o SubSeq(s, 1, k)

Shuffles == {Rotate(create_deck, k) : k \in 0..MaxShift}

DealInit ==
    /\ calc \in {[num_players |-> n, deck |-> d, round_num |-> 0,
                  new_hands |-> [p \in 0..(n - 1) |-> <<>>],
                  hand |-> [p \in 0..(n - 1) |-> <<>>]] :
                    n \in MIN_PLAYERS..MAX_PLAYERS, d \in Shuffles}
    /\ game = None
    /\ paused = {}
    /\ auc = None
    /\ log = <<>>
    /\ tasks = {}

Deal ==
    /\ calc.round_num < MAX_ROUNDS
    /\ LET d == deal_cards(calc.deck, calc.num_players, calc.round_num + 1)
       IN  calc' = [calc EXCEPT
                       !.round_num = @ + 1,
                       !.deck = d.deck,
                       !.new_hands = d.hands,
                       !.hand = [p \in DOMAIN @ |-> @[p] \o d.hands[p]]]
    /\ UNCHANGED <<game, paused, auc, log, tasks>>

DealNext == Deal

DealSpec == DealInit /\ [][DealNext]_vars

\* ------------------------------------------------------------------ one decision

\* One bid decision of an AI player on its own: _think_auction reads the
\* current bid and the player's money from the game and asks the AIBrain.
MaxBidUnits == 4

CurrentBids == {1000 * k : k \in 0..MaxBidUnits}

Funds == {0, 500, 999, 1000, 1500, 2000, 3700, 5000, STARTING_MONEY}

Estimates == {-500, 0, 999, 1000, 1999, 2500, 4000, 6300, 250000}

Percents == {40, 60, 75, 90}

BrainInit ==
    /\ calc \in [auction_type : {"open", "once_around", "sealed"},
                 current_bid : CurrentBids,
                 my_money : Funds,
                 estimate : Estimates,
                 bid_increment : BID_INCREMENTS,
                 percent : Percents,
                 decided : {FALSE},
                 decision : {<<>>}]
    /\ calc.auction_type = "open" => calc.percent = 60
    /\ calc.auction_type # "open" => calc.bid_increment = 1000
    /\ calc.auction_type = "sealed" => calc.current_bid = 0 /\ calc.percent <= 75
    /\ calc.auction_type = "once_around" => calc.percent >= 60
    /\ game = None
    /\ paused = {}
    /\ auc = None
    /\ log = <<>>
    /\ tasks = {}

Decided(decision) ==
    /\ ~calc.decided
    /\ calc' = [calc EXCEPT !.decided = TRUE, !.decision = decision]
    /\ UNCHANGED <<game, paused, auc, log, tasks>>

DecideOpen ==
    /\ calc.auction_type = "open"
    /\ Decided(decide_bid_open(calc.current_bid, calc.my_money, calc.estimate,
                               calc.bid_increment))

DecideOnceAround ==
    /\ calc.auction_type = "once_around"
    /\ Decided(decide_bid_once_around(calc.current_bid, calc.my_money, calc.estimate,
                                      calc.percent))

\* _think_auction turns the sealed bid 0 into a pass.
DecideSealed ==
    /\ calc.auction_type = "sealed"
    /\ LET bid == decide_bid_sealed(calc.my_money, calc.estimate, calc.percent)
       IN  Decided(IF bid > 0 THEN <<bid>> ELSE <<>>)

BrainNext == DecideOpen \/ DecideOnceAround \/ DecideSealed

BrainSpec == BrainInit /\ [][BrainNext]_vars

\* ------------------------------------------------------------------ AI driving

\* One auction of a room with AI players. The coroutine of a connection that
\* reaches _trigger_ai_auction_if_needed drives the AI players from inside the
\* call: it is suspended in process_auction_action while an AI player thinks,
\* and the connection delivers no further message of its player meanwhile.
\* Other connections go on; nothing keeps two coroutines from driving at once.
MaxDrivePlayers == 4
MaxTimeouts == 1

DriveAmounts == {1000, 2000}

DriveEstimates == {0, 2000, 3000}

DrivePrices == {1000}

_is_ai(g, player_index) ==
    player_index \in DOMAIN g.players /\ g.players[player_index].is_ai

Least(S) == CHOOSE i \in S : \A j \in S : i <= j

\* A coroutine suspended in process_auction_action(player): any_acted is the
\* flag of _trigger_ai_open_auction; passes and acted record how many passes
\* the trigger has completed and who has acted in the present one (history);
\* decided, action, value are the outcome of _think_auction or of its timeout.
Task(owner, player, any_acted, passes, acted) ==
    [owner |-> owner, player |-> player, any_acted |-> any_acted,
     passes |-> passes, acted |-> acted,
     decided |-> FALSE, action |-> "pass", value |-> 0, timeout |-> FALSE]

human_can_act(g, a) ==
    \E i \in 0..(a.num_players - 1) :
        ~_is_ai(g, i) /\ i # a.seller_index /\ i \notin a.passed

\* The triggers yield the coroutine as it is suspended next, or nothing when
\* the trigger returns. The for loop of the open trigger goes on at index
\* from; when it runs out, the while loop decides on another pass.
_trigger_ai_open_auction_no_break(g, a, owner, from, any_acted, passes, acted) ==
    LET eligible(lo) == {i \in lo..(a.num_players - 1) :
                            _is_ai(g, i) /\ i # a.seller_index /\ i \notin a.passed}
    IN  IF a.state = RESOLVED THEN {}
        ELSE IF eligible(from) # {}
        THEN {Task(owner, Least(eligible(from)), any_acted, passes, acted)}
        ELSE IF ~any_acted THEN {}
        ELSE IF eligible(0) # {}
        THEN {Task(owner, Least(eligible(0)), FALSE, passes + 1, <<>>)}
        ELSE {}

_trigger_ai_open_auction(g, a, owner, from, any_acted, passes, acted) ==
    LET eligible(lo) == {i \in lo..(a.num_players - 1) :
                            _is_ai(g, i) /\ i # a.seller_index /\ i \notin a.passed}
    IN  IF a.state = RESOLVED THEN {}
        ELSE IF eligible(from) # {}
        THEN {Task(owner, Least(eligible(from)), any_acted, passes, acted)}
        ELSE IF ~any_acted THEN {}
        ELSE IF human_can_act(g, a) THEN {}
        ELSE IF eligible(0) # {}
        THEN {Task(owner, Least(eligible(0)), FALSE, passes + 1, <<>>)}
        ELSE {}

_trigger_ai_sequential_auction(g, a, owner) ==
    LET can_act == get_can_act_player(a)
    IN  IF a.state = RESOLVED THEN {}
        ELSE IF can_act >= 0 /\ _is_ai(g, can_act)
        THEN {Task(owner, can_act, FALSE, 0, <<>>)}
        ELSE {}

_trigger_ai_sealed_auction(g, a, owner, from) ==
    LET eligible == {i \in from..(a.num_players - 1) :
                        _is_ai(g, i) /\ i # a.seller_index /\ i \notin DOMAIN a.bids}
    IN  IF a.state = RESOLVED \/ eligible = {} THEN {}
        ELSE {Task(owner, Least(eligible), FALSE, 0, <<>>)}

\* The loop over accept/decline of the fixed-price trigger.
FixedAcceptLoop(g, a, owner) ==
    LET can_act == get_can_act_player(a)
    IN  IF a.state # WAITING_FOR_ACCEPT THEN {}
        ELSE IF can_act >= 0 /\ _is_ai(g, can_act)
        THEN {Task(owner, can_act, FALSE, 0, <<>>)}
        ELSE {}

_trigger_ai_fixed_price_auction(g, a, owner) ==
    IF a.state = WAITING_FOR_PRICE /\ _is_ai(g, a.seller_index)
    THEN {Task(owner, a.seller_index, FALSE, 0, <<>>)}
    ELSE FixedAcceptLoop(g, a, owner)

_trigger_ai_auction_if_needed(g, a, owner) ==
    IF a.state = RESOLVED THEN {}
    ELSE IF a.auction_type = "open"
    THEN _trigger_ai_open_auction(g, a, owner, 0, FALSE, 0, <<>>)
    ELSE IF a.auction_type = "once_around"
    THEN _trigger_ai_sequential_auction(g, a, owner)
    ELSE IF a.auction_type = "sealed"
    THEN _trigger_ai_sealed_auction(g, a, owner, 0)
    ELSE _trigger_ai_fixed_price_auction(g, a, owner)

\* The trigger of task t goes on after process_auction_action has returned.
Resume(g, a, t) ==
    IF a.state = RESOLVED THEN {}
    ELSE IF a.auction_type = "open"
    THEN _trigger_ai_open_auction(g, a, t.owner, t.player + 1, TRUE, t.passes,
                                  Append(t.acted, t.player))
    ELSE IF a.auction_type = "once_around"
    THEN _trigger_ai_sequential_auction(g, a, t.owner)
    ELSE IF a.auction_type = "sealed"
    THEN _trigger_ai_sealed_auction(g, a, t.owner, t.player + 1)
    ELSE FixedAcceptLoop(g, a, t.owner)

\* _think_auction: the (action, value) pairs the AIBrain can come to.
Bidding(decision) ==
    IF decision = <<>> THEN [action |-> "pass", value |-> 0]
    ELSE [action |-> "bid", value |-> decision[1]]

_think_auction(a, player_index) ==
    IF a.auction_type = "open"
    THEN {Bidding(decide_bid_open(a.current_bid, STARTING_MONEY, e, inc)) :
             e \in DriveEstimates, inc \in BID_INCREMENTS}
    ELSE IF a.auction_type = "once_around"
    THEN {Bidding(decide_bid_once_around(a.current_bid, STARTING_MONEY, e, pc)) :
             e \in DriveEstimates, pc \in {60, 90}}
    ELSE IF a.auction_type = "sealed"
    THEN {LET bid == decide_bid_sealed(STARTING_MONEY, e, pc)
          IN  Bidding(IF bid > 0 THEN <<bid>> ELSE <<>>) :
             e \in DriveEstimates, pc \in {40, 75}}
    ELSE IF a.seller_index = player_index
    THEN {[action |-> "set_price", value |-> price] : price \in DrivePrices}
    ELSE {[action |-> "accept", value |-> 0], [action |-> "pass", value |-> 0]}

DriveInit ==
    /\ game \in {[players |-> [i \in 0..(n - 1) |-> [is_ai |-> i \in ais]]] :
                    n \in MIN_PLAYERS..MaxDrivePlayers,
                    ais \in SUBSET (0..(MaxDrivePlayers - 1))}
    /\ \E i \in DOMAIN game.players : ~_is_ai(game, i)
    /\ \E i \in DOMAIN game.players : _is_ai(game, i)
    /\ auc \in {NewAuction(t, s, Cardinality(DOMAIN game.players)) :
                   t \in {"open", "once_around", "sealed", "fixed_price"},
                   s \in DOMAIN game.players}
    \* _start_auction ends in the trigger, on the connection of a human seller
    \* or on the connection whose call drives the turn of an AI seller.
    /\ \E owner \in DOMAIN game.players :
           /\ ~_is_ai(game, owner)
           /\ ~_is_ai(game, auc.seller_index) => owner = auc.seller_index
           /\ tasks = _trigger_ai_auction_if_needed(game, auc, owner)
    /\ log = <<>>
    /\ paused = {}
    /\ calc = None

Busy == {t.owner : t \in tasks}

\* handle_bid, handle_pass, handle_accept, handle_set_price of a human player
\* whose connection is free; the player has the money for the amount.
HumanAct ==
    /\ auc.state # RESOLVED
    /\ \E p \in DOMAIN game.players, action \in AuctionActions, amount \in DriveAmounts :
          LET pa == process_action(auc, p, action,
                                   IF action \in {"bid", "set_price"} THEN amount ELSE 0)
          IN  /\ ~_is_ai(game, p)
              /\ p \notin Busy
              /\ Forwarded(auc, p, action)
              /\ auc' = pa.a
              /\ tasks' = IF pa.error = NoError /\ pa.result = None /\ action # "accept"
                          THEN tasks \cup _trigger_ai_auction_if_needed(game, pa.a, p)
                          ELSE tasks
    /\ UNCHANGED <<game, paused, log, calc>>

\* _think_auction returns within the timeout.
Think ==
    \E t \in tasks : \E d \in _think_auction(auc, t.player) :
        /\ ~t.decided
        /\ tasks' = (tasks \ {t})
                        \cup {[t EXCEPT !.decided = TRUE, !.action = d.action,
                                        !.value = d.value]}
        /\ UNCHANGED <<game, paused, auc, log, calc>>

\* asyncio.wait_for gives up on _think_auction: action, value = "pass", 0.
Timeout ==
    \E t \in tasks :
        /\ ~t.decided
        /\ Len(log) + Cardinality({u \in tasks : u.timeout}) < MaxTimeouts
        /\ tasks' = (tasks \ {t})
                        \cup {[t EXCEPT !.decided = TRUE, !.action = "pass",
                                        !.value = 0, !.timeout = TRUE]}
        /\ UNCHANGED <<game, paused, auc, log, calc>>

\* process_auction_action carries the decision out and returns into the
\* trigger; log keeps the fallbacks carried out (history).
AIAct ==
    \E t \in tasks :
        /\ t.decided
        /\ LET pa == IF auc.state = RESOLVED \/ ~Forwarded(auc, t.player, t.action)
                     THEN [a |-> auc, error |-> NoError, result |-> None]
                     ELSE process_action(auc, t.player, t.action, t.value)
           IN  /\ auc' = pa.a
               /\ tasks' = (tasks \ {t}) \cup Resume(game, pa.a, t)
               /\ log' = IF t.timeout
                         THEN Append(log, [player |-> t.player, action |-> t.action,
                                           amount |-> t.value, result |-> pa.result])
                         ELSE log
        /\ UNCHANGED <<game, paused, calc>>

DriveNext == HumanAct \/ Think \/ Timeout \/ AIAct

DriveSpec == DriveInit /\ [][DriveNext]_vars

\* ------------------------------------------------------------------ properties

TotalMoney(g) == SumOver([p \in DOMAIN g.players |-> g.players[p].money], DOMAIN g.players)

\* The outcomes of every call a player can make in the current state.
PlayCalls ==
    {handle_play_card(game, p, ci, di) :
        p \in Players, ci \in -1..(DeckSize + 1), di \in -1..(DeckSize + 1)}

BidCalls == {handle_bid(game, p, amount) : p \in Players, amount \in Amounts}

PassCalls == {handle_pass(game, p) : p \in Players}

AcceptCalls == {handle_accept(game, p) : p \in Players}

SetPriceCalls == {handle_set_price(game, p, price) : p \in Players, price \in Amounts}

\* C1: the players' money adds up to the starting money of all players plus
\* every round-end payout made so far; settling an auction moves money between
\* two players and neither creates nor destroys any.
C1_MoneyConserved ==
    TotalMoney(game) = game.num_players * STARTING_MONEY + game.total_payouts

\* A round has paid out and a buyer has paid a seller.
C1_Witness ==
    /\ game.total_payouts > 0
    /\ \E p \in Players : game.players[p].money < STARTING_MONEY

\* C2: no player's balance is ever negative.
C2_MoneyNeverNegative == \A p \in Players : game.players[p].money >= 0

\* A player has paid the whole balance for a painting.
C2_Witness ==
    /\ game.current_auction = None
    /\ \E p \in Players : game.players[p].money = 0 /\ game.players[p].paintings # <<>>

\* C3 (as claimed): the board count of every artist is at most 5 in every
\* reachable state, calls after the end of the game included.
C3_BoardAtMostFive == \A a \in ArtistSet : game.board[a] <= ROUND_END_CARD_COUNT

\* The first card of a play, where the play is accepted and counts on the board.
PlayedCard(g, p, ci) == g.players[p].hand[ci + 1]

\* The round ends in the step from g to h on the count of artist a reaching 5,
\* without a further increment and without an auction being started.
RoundEndsAtFive(g, h, a) ==
    /\ h.round_num = g.round_num + 1
    /\ h.current_auction = g.current_auction
    /\ IF h.game_over THEN h.board[a] = ROUND_END_CARD_COUNT
       ELSE h.board = [b \in ArtistSet |-> 0]

\* C4: a play whose first board increment brings an artist's count to 5 (one
\* card, the first of a pair given with the play, or the first counted on a
\* double response) ends the round in that step: the second increment is not
\* applied and no auction is started.
C4_RoundEndsOnFirstIncrement ==
    /\ \A p \in Players, ci \in -1..2, di \in -1..2 :
           LET r == handle_play_card(game, p, ci, di)
           IN  (/\ r.error = NoError
                /\ "double_request" \notin r.sent
                /\ game.board[PlayedCard(game, p, ci).artist]
                       = ROUND_END_CARD_COUNT - 1)
               => RoundEndsAtFive(game, r.g, PlayedCard(game, p, ci).artist)
    /\ \A p \in Players, si \in -1..2 :
           (/\ game.waiting_for_double
            /\ p = game.double_player_index
            /\ game.board[game.double_base_card.artist] = ROUND_END_CARD_COUNT - 1)
           => RoundEndsAtFive(game, handle_double_response(game, p, si).g,
                              game.double_base_card.artist)

\* The game ended on a fifth card that was the first of a pair: all six cards of
\* the last round have left the hands and only five are counted.
C4_Witness ==
    /\ game.game_over
    /\ game.round_num = MAX_ROUNDS + 1
    /\ ~game.waiting_for_double
    /\ game.current_auction = None
    /\ game.board["Red Tarou"] = ROUND_END_CARD_COUNT
    /\ \A p \in Players : game.players[p].hand = <<>>

\* C5: a call of play card, bid, pass, accept or set price that reports an
\* error to the actor leaves the whole game as it was.
C5_ErrorChangesNothing ==
    \A r \in PlayCalls \cup BidCalls \cup PassCalls \cup AcceptCalls \cup SetPriceCalls :
        r.error # NoError => r.g = game

\* A bid is refused in an auction that already has a bid.
C5_Witness ==
    /\ game.current_auction # None
    /\ game.current_auction.current_bid > 0
    /\ \E r \in BidCalls : r.error # NoError /\ "error" \in r.sent

\* The player who may act in a turn-ordered auction, or -1 if none may.
CursorHolder(a) ==
    IF a.state = WAITING_FOR_PRICE \/ a.state = RESOLVED THEN -1
    ELSE a.current_turn_index

\* C6 (as claimed): in a once_around or fixed_price auction a pass from a player
\* who does not hold the cursor returns a failure and leaves the auction as it was.
C6_OutOfTurnPassRejected ==
    (auc # None /\ auc.auction_type \in {"once_around", "fixed_price"}
         /\ auc.state # RESOLVED)
    => \A p \in 0..(auc.num_players - 1) :
           p # CursorHolder(auc)
           => LET pa == process_action(auc, p, "pass", 0)
              IN  pa.error # NoError /\ pa.a = auc

\* C7 (as claimed): an action kind that does not belong to the protocol of the
\* active auction returns a failure, changes nothing and broadcasts no bid_update.
Refused(r) == r.error # NoError /\ r.g = game /\ "bid_update" \notin r.sent

C7_WrongProtocolRejected ==
    game.current_auction # None
    => /\ game.current_auction.auction_type = "fixed_price"
          => \A r \in BidCalls : Refused(r)
       /\ game.current_auction.auction_type \in {"open", "once_around", "sealed"}
          => \A r \in AcceptCalls \cup SetPriceCalls : Refused(r)

\* The non-sellers of an open auction who have not passed.
Active(a) == {i \in 0..(a.num_players - 1) : i # a.seller_index /\ i \notin a.passed}

LastResult == log[Len(log)].result

\* C8 (as claimed): after a bid or a pass that leaves at most one un-passed
\* non-seller, an open auction is resolved, whoever the remaining player is.
C8_ResolvedWhenOneRemains ==
    (auc # None /\ auc.auction_type = "open" /\ Len(log) > 0
         /\ Cardinality(Active(auc)) <= 1)
    => (auc.state = RESOLVED /\ LastResult # None)

\* C8 (amended): after a bid or a pass an open auction is resolved, and a
\* resolution returned, exactly when no un-passed non-seller remains or the only
\* one remaining is the current high bidder.
C8_ResolvedWhenOnlyBidderRemains ==
    (auc # None /\ auc.auction_type = "open" /\ Len(log) > 0)
    => /\ auc.state = RESOLVED
          <=> \/ Active(auc) = {}
              \/ (Active(auc) = {auc.current_bidder} /\ auc.current_bid > 0)
       /\ auc.state = RESOLVED <=> LastResult # None

\* An open auction resolved with its high bidder the only player left, and one
\* still open with a single player left who is not the high bidder.
C8_Witness ==
    /\ auc # None
    /\ auc.auction_type = "open"
    /\ Len(log) > 0
    /\ Cardinality(Active(auc)) = 1
    /\ auc.current_bid > 0
    /\ auc.state = RESOLVED

\* C9 (as claimed): in an open auction every bid of a player who has passed is
\* rejected.
C9_PassedPlayerCannotBid ==
    (auc # None /\ auc.auction_type = "open" /\ auc.state # RESOLVED)
    => \A p \in auc.passed, amount \in AuctionAmounts :
           process_action(auc, p, "bid", amount).error # NoError

\* The bids among the calls made on the auction, in order.
IsBid(e) == e.action = "bid"

BidsMade == SelectSeq(log, IsBid)

OpenExample ==
    /\ auc.auction_type = "open"
    /\ auc.num_players = 3
    /\ auc.seller_index = 0
    /\ Len(log) = 3
    /\ log[1].player = 1 /\ log[1].action = "bid" /\ log[1].amount = 5000
    /\ log[2].player = 2 /\ log[2].action = "bid" /\ log[2].amount = 7000
    /\ log[3].player = 1 /\ log[3].action = "pass"

NonSellers(a) == (0..(a.num_players - 1)) \ {a.seller_index}

\* C11 (as claimed): a once_around auction is one strict clockwise pass: the
\* cursor starts at the seller's clockwise neighbour, the k-th call to take
\* effect is that of the k-th player clockwise from the seller, and the auction
\* is resolved exactly when all non-sellers have had their call, the cursor
\* being back at the seller.
C11_OnceAroundStrictPass ==
    (auc # None /\ auc.auction_type = "once_around")
    => /\ Len(log) = 0 => auc.current_turn_index = (auc.seller_index + 1) % auc.num_players
       /\ \A k \in 1..Len(log) :
              log[k].player = (auc.seller_index + k) % auc.num_players
       /\ auc.state = RESOLVED <=> Len(log) = auc.num_players - 1
       /\ auc.state = RESOLVED => auc.current_turn_index = auc.seller_index

\* What a logged call of a sealed auction records for its player.
Recorded(e) == IF e.action = "bid" THEN e.amount ELSE 0

\* C12: in a sealed auction the first bid or pass of each non-seller is
\* recorded (a pass as 0), a further bid of a recorded player and any bid of the
\* seller is rejected and changes nothing, and the auction is resolved exactly
\* when all num_players - 1 non-sellers are recorded, in whatever order.
C12_SealedOneBidEach ==
    (auc # None /\ auc.auction_type = "sealed")
    => /\ DOMAIN auc.bids = {log[k].player : k \in 1..Len(log)}
       /\ DOMAIN auc.bids \subseteq NonSellers(auc)
       /\ \A k \in 1..Len(log) :
              /\ auc.bids[log[k].player] = Recorded(log[k])
              /\ \A j \in 1..Len(log) : log[j].player = log[k].player => j = k
       /\ auc.sealed_bids_received = Cardinality(DOMAIN auc.bids)
       /\ \A p \in DOMAIN auc.bids \cup {auc.seller_index}, amount \in AuctionAmounts :
              LET pa == process_action(auc, p, "bid", amount)
              IN  pa.error # NoError /\ pa.a = auc /\ pa.result = None
       /\ auc.state = RESOLVED <=> DOMAIN auc.bids = NonSellers(auc)
       /\ auc.state = RESOLVED <=> (Len(log) > 0 /\ LastResult # None)

\* A sealed auction resolved by calls that arrived against the clockwise order,
\* one of them a pass.
C12_Witness ==
    /\ auc # None
    /\ auc.auction_type = "sealed"
    /\ auc.state = RESOLVED
    /\ Len(log) = auc.num_players - 1
    /\ log[1].player > log[2].player
    /\ \E k \in 1..Len(log) : log[k].action = "pass"

MaxBid(bids) == CHOOSE m \in {bids[p] : p \in DOMAIN bids} : \A q \in DOMAIN bids : bids[q] <= m

SealedExample ==
    /\ auc.auction_type = "sealed"
    /\ auc.num_players = 4
    /\ auc.seller_index = 0
    /\ auc.state = RESOLVED
    /\ auc.bids = (1 :> 3000) @@ (2 :> 3000) @@ (3 :> 0)

C14_PriceSetFirst ==
    (auc # None /\ auc.auction_type = "fixed_price")
    => /\ auc.state = WAITING_FOR_PRICE
          => \A p \in 0..(auc.num_players - 1), action \in {"accept", "pass"} :
                 LET pa == process_action(auc, p, action, 0)
                 IN  pa.a = auc /\ pa.result = None
       /\ auc.state = WAITING_FOR_ACCEPT
          => \A p \in 0..(auc.num_players - 1) :
                 (p = auc.seller_index \/ p # auc.current_turn_index)
                 => LET pa == process_action(auc, p, "accept", 0)
                    IN  pa.a = auc /\ pa.result = None
       /\ auc.state = RESOLVED
          => /\ LastResult.price > 0
             /\ LastResult.price % 1000 = 0
             /\ \E k \in 1..Len(log) :
                    /\ log[k].action = "set_price"
                    /\ log[k].player = auc.seller_index
                    /\ log[k].amount = LastResult.price

\* The fixed_price auction of the game has its price set and every non-seller
\* but the cursor holder has declined.
LastToDecline(g) ==
    /\ g.current_auction # None
    /\ g.current_auction.auction_type = "fixed_price"
    /\ g.current_auction.state = WAITING_FOR_ACCEPT
    /\ g.current_auction.current_turn_index \in NonSellers(g.current_auction)
    /\ g.current_auction.passed =
           NonSellers(g.current_auction) \ {g.current_auction.current_turn_index}

Money(g) == [p \in DOMAIN g.players |-> g.players[p].money]

\* The example: 4 players, seller P0 asks 4000, P1, P2 and P3 decline in turn.
DeclinedExample ==
    LET a0 == NewAuction("fixed_price", 0, 4)
        a1 == process_action(a0, 0, "set_price", 4000)
        a2 == process_action(a1.a, 1, "pass", 0)
        a3 == process_action(a2.a, 2, "pass", 0)
        a4 == process_action(a3.a, 3, "pass", 0)
        g == [players |-> [p \in 0..3 |-> Player(<<>>)], current_auction |-> a4.a]
    IN  /\ a1.result = None /\ a2.result = None /\ a3.result = None
        /\ a4.result = AuctionResult(0, 4000, 0)
        /\ Money(_resolve_auction(g, a4.result)) = Money(g)

\* C15: when the last non-seller of a fixed_price auction declines, all others
\* having declined, the auction resolves to the seller at the seller's asking
\* price and the settlement leaves every balance as it was; so it is for price
\* 4000 and three non-sellers declining in turn.
C15_AllDeclineSellerKeeps ==
    /\ LastToDecline(game)
       => LET a == game.current_auction
              p == a.current_turn_index
              s == a.seller_index
              r == handle_pass(game, p)
          IN  /\ process_action(a, p, "pass", 0).result
                     = AuctionResult(s, a.fixed_price, s)
              /\ a.fixed_price > 0
              /\ r.error = NoError
              /\ r.sleeping
              /\ r.g.current_auction = None
              /\ Money(r.g) = Money(game)
              /\ r.g.players[s].paintings = Append(game.players[s].paintings, a.card)
    /\ DeclinedExample

\* The last non-seller is about to decline a price the seller has set.
C15_Witness == LastToDecline(game) /\ game.current_auction.fixed_price > 0

\* The calls on the active auction: the caller, what process_action makes of
\* the call and what the entry point returns.
AuctionCalls ==
    IF game.current_auction = None THEN {}
    ELSE {[p |-> p, pa |-> process_action(game.current_auction, p, "bid", amount),
           r |-> handle_bid(game, p, amount)] : p \in Players, amount \in Amounts}
         \cup {[p |-> p, pa |-> process_action(game.current_auction, p, "pass", 0),
                r |-> handle_pass(game, p)] : p \in Players}
         \cup {[p |-> p, pa |-> process_action(game.current_auction, p, "accept", 0),
                r |-> handle_accept(game, p)] : p \in Players}
         \cup {[p |-> p, pa |-> process_action(game.current_auction, p, "set_price", price),
                r |-> handle_set_price(game, p, price)] : p \in Players, price \in Amounts}

Paintings(g) == [p \in DOMAIN g.players |-> g.players[p].paintings]

\* C16 (as claimed): when an auction of a pair of cards resolves, both cards go
\* to the winner's paintings, which grow by exactly 2.
C16_BothCardsToWinner ==
    \A c \in AuctionCalls :
        (game.current_auction.double_card # None /\ c.r.sleeping)
        => LET w == c.pa.result.winner_index
           IN  c.r.g.players[w].paintings =
                   game.players[w].paintings
                       \o <<game.current_auction.card, game.current_auction.double_card>>

\* C17 (as claimed): while a double card is held for the second-card decision,
\* every play-card call is rejected and changes nothing.
C17_NoPlayWhileDoublePending ==
    game.waiting_for_double
    => \A r \in PlayCalls : r.error # NoError /\ r.g = game

\* C18 (as claimed): play card is rejected with an error and without any change
\* when the actor does not hold the turn, an auction is active, the game or the
\* round is not active, the card index is outside the hand, or a paired index
\* is supplied that is outside the hand, equal to the card index or names a
\* card of another artist.
C18_PlayCardRejections ==
    \A p \in Players, ci \in -1..(DeckSize + 1), di \in -1..(DeckSize + 1) :
        LET hand == game.players[p].hand
            r == handle_play_card(game, p, ci, di)
        IN  (\/ p # game.current_turn
             \/ game.current_auction # None
             \/ game.game_over
             \/ ~game.round_active
             \/ ci < 0
             \/ ci >= Len(hand)
             \/ /\ di >= 0
                /\ \/ di >= Len(hand)
                   \/ di = ci
                   \/ hand[di + 1].artist # hand[ci + 1].artist)
            => (r.error # NoError /\ "error" \in r.sent /\ r.g = game)

\* C19: a call that resolves the active auction moves exactly the price from
\* the winner to the seller, or nothing if the seller wins, adds the auctioned
\* card to the winner's paintings, discards the auction and leaves one advance
\* of the turn to follow; no other call on the auction moves money or paintings.
C19_Settlement ==
    \A c \in AuctionCalls :
        /\ c.r.g.current_auction = None <=> c.r.sleeping
        /\ c.r.sleeping
           => LET w == c.pa.result.winner_index
                  s == c.pa.result.seller_index
                  price == c.pa.result.price
              IN  /\ s = game.current_auction.seller_index
                  /\ \A q \in Players :
                         c.r.g.players[q].money =
                             game.players[q].money
                                 + (IF q = s /\ w # s THEN price ELSE 0)
                                 - (IF q = w /\ w # s THEN price ELSE 0)
                  /\ \A q \in Players :
                         c.r.g.players[q].paintings =
                             IF q = w
                             THEN Append(game.players[q].paintings,
                                         game.current_auction.card)
                             ELSE game.players[q].paintings
                  /\ c.r.g.current_turn = game.current_turn
                  /\ c.r.g.round_num = game.round_num
                  /\ c.r.g.board = game.board
        /\ ~c.r.sleeping
           => Money(c.r.g) = Money(game) /\ Paintings(c.r.g) = Paintings(game)

\* A buyer has paid a seller, the auction is gone and the advance of the turn
\* is still to come.
C19_Witness ==
    /\ paused # {}
    /\ game.current_auction = None
    /\ game.scorings = 0
    /\ \E w, s \in Players :
           /\ game.players[w].money < STARTING_MONEY
           /\ game.players[s].money > STARTING_MONEY
           /\ game.players[w].paintings # <<>>

\* C20 (as claimed): the round number stays within 1..4, a round is scored at
\* most 4 times, and the game is over exactly when the fourth scoring is done.
C20_FourRoundsThenOver ==
    /\ game.round_num \in 1..MAX_ROUNDS
    /\ game.scorings <= MAX_ROUNDS
    /\ game.game_over <=> game.scorings = MAX_ROUNDS

\* C21 (as claimed): while a call is suspended in the pause that follows the
\* resolution of an auction, no play of a card by another connection of the
\* room is accepted or changes the game.
C21_NoPlayDuringPause ==
    paused # {} =>
        \A p \in Players \ paused, ci \in Indices, di \in Indices :
            LET r == handle_play_card(game, p, ci, di)
            IN  r.error # NoError /\ r.g = game

\* C26 (as claimed): while an auction is unresolved no new auction is started,
\* neither by a play of a card nor by a double response: the active auction is
\* still the current one after any such call.
C26_ActiveAuctionNotReplaced ==
    game.current_auction # None =>
        /\ \A p \in Players, ci \in Indices, di \in Indices :
               handle_play_card(game, p, ci, di).g.current_auction
                   = game.current_auction
        /\ \A p \in Players, si \in Indices :
               handle_double_response(game, p, si).g.current_auction
                   = game.current_auction

\* The cards a game holds, container after container: the deck, the hands, the
\* paintings, the active auction (one card or a pair), the double escrow.
Flat(piles) ==
    LET upto[p \in -1..(Len(piles) - 1)] ==
            IF p = -1 THEN <<>> ELSE upto[p - 1] \o piles[p + 1]
    IN  upto[Len(piles) - 1]

Optional(card) == IF card = None THEN <<>> ELSE <<card>>

Held(g) ==
    g.deck
      \o Flat([k \in 1..g.num_players |-> g.players[k - 1].hand])
      \o Flat([k \in 1..g.num_players |-> g.players[k - 1].paintings])
      \o (IF g.current_auction = None THEN <<>>
          ELSE <<g.current_auction.card>> \o Optional(g.current_auction.double_card))
      \o Optional(g.double_base_card)

CardIds(cards) == {cards[k].card_id : k \in DOMAIN cards}

NoRepeat(cards) == Cardinality(CardIds(cards)) = Len(cards)

\* Every step the room can take from the current state.
Steps ==
    {r.g : r \in PlayCalls \cup BidCalls \cup PassCalls \cup AcceptCalls
                     \cup SetPriceCalls}
      \cup {handle_double_response(game, p, si).g : p \in Players, si \in Indices}
      \cup (IF paused = {} THEN {} ELSE {_advance_turn(game)})

Ahead(board, a) ==
    {b \in ArtistSet :
        \/ board[b] > board[a]
        \/ (board[b] = board[a] /\ ArtistIndex(b) < ArtistIndex(a))}

Award(board, a) ==
    IF board[a] = 0 THEN 0
    ELSE CASE Cardinality(Ahead(board, a)) = 0 -> 30000
           [] Cardinality(Ahead(board, a)) = 1 -> 20000
           [] Cardinality(Ahead(board, a)) = 2 -> 10000
           [] OTHER -> 0

Scored == calc.round_values # None

\* C29: a scoring adds to each artist's market value 30000, 20000, 10000 for
\* ranks 1, 2, 3 by board count, ties going to the artist earlier in the fixed
\* order, and 0 to every other artist and to every artist without a card on
\* the board; the board 3, 2, 0, 0, 0 awards 30000, 20000, 0, 0, 0.
C29_RankingAwards ==
    Scored =>
        /\ \A a \in ArtistSet :
               /\ calc.round_values[a] = Award(calc.board, a)
               /\ calc.market[a] = calc.market_before[a] + Award(calc.board, a)
               /\ calculate_round_values(calc.board)[a] = Award(calc.board, a)
        /\ calc.board = [a \in ArtistSet |->
                            CASE a = ARTISTS[1] -> 3 [] a = ARTISTS[2] -> 2 [] OTHER -> 0]
           => calc.round_values = [a \in ArtistSet |->
                            CASE a = ARTISTS[1] -> 30000 [] a = ARTISTS[2] -> 20000
                              [] OTHER -> 0]

\* A scored board with a tie for the first rank between two artists only.
C29_Witness ==
    /\ Scored
    /\ calc.board[ARTISTS[2]] = 2
    /\ calc.board[ARTISTS[4]] = 2
    /\ \A a \in ArtistSet \ {ARTISTS[2], ARTISTS[4]} : calc.board[a] = 0
    /\ calc.round_values[ARTISTS[2]] = 30000
    /\ calc.round_values[ARTISTS[4]] = 20000

\* What a pile of paintings is worth at the market values of game h.
Worth(h, pile) ==
    SumOver([a \in ArtistSet |->
                h.market[a] * Cardinality({k \in DOMAIN pile : pile[k].artist = a})],
            ArtistSet)

\* The steps from the current state in which a round ends.
RoundEnds == {h \in Steps : h.scorings = game.scorings + 1}

\* C30: a step that ends a round pays each player the worth of the paintings
\* held, at the market values that include this round's award, and empties
\* every pile; if a next round starts, its board is all-zero and the market
\* values are kept; no step ever lowers a market value.
C30_PayoutAndReset ==
    /\ \A h \in Steps : \A a \in ArtistSet : h.market[a] >= game.market[a]
    /\ \A h \in RoundEnds :
           /\ \A p \in Players :
                  /\ h.players[p].money =
                         game.players[p].money + Worth(h, game.players[p].paintings)
                  /\ h.players[p].paintings = <<>>
           /\ h.game_over =>
                  \A a \in ArtistSet : h.market[a] = game.market[a] + Award(h.board, a)
           /\ ~h.game_over =>
                  /\ h.round_num = game.round_num + 1
                  /\ h.round_active
                  /\ \A a \in ArtistSet : h.board[a] = 0

\* A round is about to end with a player holding a painting that will pay, and
\* another round follows.
C30_Witness ==
    \E h \in RoundEnds :
        /\ ~h.game_over
        /\ \E p \in Players :
               /\ game.players[p].paintings # <<>>
               /\ h.players[p].money > game.players[p].money
        /\ \E a \in ArtistSet : h.market[a] > 0

\* C28 (as claimed): the deal of each round 1..4 gives every player exactly the
\* scheduled number of cards for the player count and the round.
C28_ScheduledDeal ==
    calc.round_num >= 1 =>
        \A p \in 0..(calc.num_players - 1) :
            Len(calc.new_hands[p]) = DEAL_COUNTS[calc.num_players][calc.round_num]

\* C25: a bid the AIBrain decides on is a multiple of 1000 within the player's
\* money, and in an open or once_around auction above the current bid; where
\* the money allows no such amount the decision is a pass (sealed: the bid 0).
C25_BrainBids ==
    calc.decided =>
        /\ \A k \in DOMAIN calc.decision :
               /\ calc.decision[k] % 1000 = 0
               /\ calc.decision[k] > 0
               /\ calc.decision[k] <= calc.my_money
               /\ calc.auction_type \in {"open", "once_around"}
                      => calc.decision[k] > calc.current_bid
        /\ calc.my_money < calc.current_bid + 1000 => calc.decision = <<>>
        /\ calc.auction_type = "sealed" =>
               decide_bid_sealed(calc.my_money, calc.estimate, calc.percent)
                   \in {0} \cup {1000 * k : k \in 1..(calc.my_money \div 1000)}

\* A bid decided under an estimate that is no multiple of 1000, below the
\* current bid plus the drawn increment.
C25_Witness ==
    /\ calc.decided
    /\ calc.auction_type = "open"
    /\ calc.estimate = 2500
    /\ calc.current_bid = 1000
    /\ calc.bid_increment = 3000
    /\ calc.decision = <<2000>>

\* A human player is the one the protocol of the auction is waiting for.
HumanMayAct(g, a) ==
    IF a.auction_type = "open" THEN human_can_act(g, a)
    ELSE IF a.auction_type = "sealed"
    THEN \E i \in 0..(a.num_players - 1) :
             ~_is_ai(g, i) /\ i # a.seller_index /\ i \notin DOMAIN a.bids
    ELSE get_can_act_player(a) >= 0 /\ ~_is_ai(g, get_can_act_player(a))

\* C23 (as claimed): once the fallback of a timed-out AI decision has been
\* carried out, the auction is never left unresolved with no coroutine driving
\* the AI players and no human player to act.
C23_FallbackNeverSuspends ==
    (log # <<>> /\ tasks = {} /\ auc.state # RESOLVED) => HumanMayAct(game, auc)

\* C24: in an open auction, within one pass of a trigger no AI player acts
\* twice; a trigger begins a further pass only when no human non-seller is
\* left who has not passed; and the auction resolves only when every human
\* non-seller has passed or is the high bidder.
C24_OpenPasses ==
    auc.auction_type = "open" =>
        /\ \A t \in tasks :
               /\ \A j, k \in DOMAIN t.acted : j # k => t.acted[j] # t.acted[k]
               /\ \A k \in DOMAIN t.acted : t.acted[k] # t.player
               /\ t.passes > 0 => ~human_can_act(game, auc)
        /\ auc.state = RESOLVED =>
               \A i \in DOMAIN game.players :
                   (~_is_ai(game, i) /\ i # auc.seller_index)
                   => (i \in auc.passed \/ i = auc.current_bidder)

\* A trigger is in a further pass of an open auction with a human non-seller,
\* an AI player having acted earlier in the pass.
C24_Witness ==
    /\ auc.auction_type = "open"
    /\ \E i \in DOMAIN game.players : ~_is_ai(game, i) /\ i # auc.seller_index
    /\ \E t \in tasks : t.passes > 0 /\ t.acted # <<>>

\* Some participant has a legal action: a call that is accepted and changes the
\* game, or a call at the pause after a resolution that has yet to move the turn.
LegalAction(g) ==
    \/ paused # {}
    \/ \E p \in DOMAIN g.players :
           \/ \E ci \in 0..14, di \in -1..14 :
                  LET r == handle_play_card(g, p, ci, di)
                  IN  r.error = NoError /\ r.g # g
           \/ \E si \in -1..14 : handle_double_response(g, p, si).g # g
           \/ \E amount \in {1000} :
                  \/ handle_bid(g, p, amount).g # g
                  \/ handle_set_price(g, p, amount).g # g
           \/ handle_pass(g, p).g # g
           \/ handle_accept(g, p).g # g

\* C22 (as claimed): in every reachable state in which the game is not over,
\* some participant has a legal action.
C22_NoDeadlock == ~game.game_over => LegalAction(game)

\* C33: a double response made while no double is pending, or by a player other
\* than the one whose card is held, leaves the whole game unchanged.
C33_DoubleResponseOnlyFromHolder ==
    \A p \in Players, si \in Indices :
        (~game.waiting_for_double \/ p # game.double_player_index)
        => handle_double_response(game, p, si).g = game

\* A double is pending, so a response of another player is a case of the
\* claim, and that player holds a card the response could name.
C33_Witness ==
    /\ game.waiting_for_double
    /\ \E p \in Players :
           p # game.double_player_index /\ game.players[p].hand # <<>>

\* Player t is the first player clockwise after the turn holder of g who holds
\* a card: the turn holder itself when nobody else holds one.
FirstHolderAfter(g, t) ==
    \E d \in 1..g.num_players :
        /\ t = (g.current_turn + d) % g.num_players
        /\ g.players[t].hand # <<>>
        /\ \A e \in 1..(d - 1) :
               g.players[(g.current_turn + e) % g.num_players].hand = <<>>

\* C36: when the pause after a resolution ends, _advance_turn moves the turn to
\* the first player clockwise after the turn holder whose hand is not empty and
\* changes nothing else; if every hand is empty it ends the round instead.
C36_AdvanceTurnClockwise ==
    paused # {} =>
        LET h == _advance_turn(game)
        IN  IF \A p \in Players : game.players[p].hand = <<>>
            THEN h.scorings = game.scorings + 1
            ELSE /\ FirstHolderAfter(game, h.current_turn)
                 /\ h = [game EXCEPT !.current_turn = h.current_turn]

\* The turn is about to pass over a player without cards.
C36_Witness ==
    /\ paused # {}
    /\ game.players[(game.current_turn + 1) % game.num_players].hand = <<>>
    /\ \E p \in Players : game.players[p].hand # <<>>

\* Index si names a card of the escrowing player's hand that shares the artist
\* of the escrowed base card.
NamesPartner(g, si) ==
    /\ si >= 0
    /\ si < Len(g.players[g.double_player_index].hand)
    /\ g.players[g.double_player_index].hand[si + 1].artist = g.double_base_card.artist

\* C40: a double response of the escrowing player that names an out-of-range
\* index or a card of another artist is answered with an error and leaves the
\* double pending, the base card escrowed and the board unchanged; only the
\* index -1 ("none") declines.
C40_InvalidDoubleResponseRejected ==
    game.waiting_for_double =>
        \A si \in Indices \ {-1} :
            ~NamesPartner(game, si) =>
                LET r == handle_double_response(game, game.double_player_index, si)
                IN  /\ r.error # NoError
                    /\ r.g = game

\* The game after each call of an entry point by any player in the current state.
EntryCalls ==
    {r.g : r \in PlayCalls \cup BidCalls \cup PassCalls \cup AcceptCalls
                     \cup SetPriceCalls}
      \cup {handle_double_response(game, p, si).g : p \in Players, si \in Indices}

\* The step from g to h starts an auction.
StartsAuction(g, h) ==
    /\ h.current_auction # None
    /\ \/ g.current_auction = None
       \/ h.current_auction.card # g.current_auction.card

\* C38: once the game is over, no call of play card, double response, bid, pass,
\* accept or set price by any player changes a player's money, the board, the
\* market or the round number, or starts an auction.
C38_GameOverAbsorbing ==
    game.game_over =>
        \A h \in EntryCalls :
            /\ Money(h) = Money(game)
            /\ h.board = game.board
            /\ h.market = game.market
            /\ h.round_num = game.round_num
            /\ ~StartsAuction(game, h)

\* The game is waiting for a card to be played: the round is active, the game is
\* not over, there is no auction and no pending double, and no call is in the
\* pause that precedes _advance_turn.
WaitingForPlay ==
    /\ game.round_active
    /\ ~game.game_over
    /\ game.current_auction = None
    /\ ~game.waiting_for_double
    /\ paused = {}

\* C37 (as claimed): whenever the game is waiting for a card play, the turn
\* holder has a non-empty hand, also right after a new round has started.
C37_TurnHolderHasCards ==
    WaitingForPlay => game.players[game.current_turn].hand # <<>>

\* The auction type printed on a card of the deck.
FaceType(card) == CardOf(card.card_id).auction_type

\* The step from g to h starts the auction of the pair (first, second) under the
\* printed type of the second card, or open when that type is double, after two
\* board increments.
PairAuctioned(g, h, first, second) ==
    /\ h.current_auction.card.card_id = first.card_id
    /\ h.current_auction.double_card # None
    /\ h.current_auction.double_card.card_id = second.card_id
    /\ h.current_auction.auction_type =
           (IF FaceType(second) = "double" THEN "open" ELSE FaceType(second))
    /\ h.board = [g.board EXCEPT ![first.artist] = @ + 2]

\* The step from g to h starts an open auction of the card first alone after
\* one board increment.
SingleOpenAuctioned(g, h, first) ==
    /\ h.current_auction.card.card_id = first.card_id
    /\ h.current_auction.double_card = None
    /\ h.current_auction.auction_type = "open"
    /\ h.board = [g.board EXCEPT ![first.artist] = @ + 1]

\* C32: the auction of a double play runs under the printed type of the second
\* card, or open when the second card is itself typed double, alike for a pair
\* played in one step and for one completed by a double response; a double-typed
\* card played with no same-artist partner in hand, or whose double request is
\* declined, is auctioned alone as an open auction with one board increment.
C32_EffectiveProtocol ==
    /\ \A p \in Players, ci \in Indices, di \in Indices :
           LET r == handle_play_card(game, p, ci, di)
               hand == game.players[p].hand
           IN  (r.error = NoError /\ StartsAuction(game, r.g)
                  /\ FaceType(hand[ci + 1]) = "double")
               => IF di >= 0
                  THEN PairAuctioned(game, r.g, hand[ci + 1], hand[di + 1])
                  ELSE SingleOpenAuctioned(game, r.g, hand[ci + 1])
    /\ game.waiting_for_double =>
           \A si \in Indices :
               LET p == game.double_player_index
                   r == handle_double_response(game, p, si)
               IN  StartsAuction(game, r.g) =>
                       /\ NamesPartner(game, si) =>
                              PairAuctioned(game, r.g, game.double_base_card,
                                            game.players[p].hand[si + 1])
                       /\ si = -1 =>
                              SingleOpenAuctioned(game, r.g, game.double_base_card)

\* A pair whose second card is itself typed double is being auctioned.
C32_Witness ==
    /\ game.current_auction # None
    /\ game.current_auction.double_card # None
    /\ FaceType(game.current_auction.double_card) = "double"

\* C34 (as claimed): at most one loop driving the AI players of the room is
\* active at any time, and no two loops have the same AI player act for the
\* same opportunity.
C34_OneDrivingLoop ==
    /\ Cardinality(tasks) <= 1
    /\ \A t \in tasks, u \in tasks : t.player = u.player => t = u

\* C39 (as claimed): whenever a driving loop waits for the decision of an AI
\* player, every action _think_auction can decide on for the auction as it is,
\* carried out at once, is accepted: it is never answered with an error.
C39_AIActionsAccepted ==
    \A t \in tasks :
        (~t.decided /\ auc.state # RESOLVED) =>
            \A d \in _think_auction(auc, t.player) :
                Forwarded(auc, t.player, d.action) =>
                    process_action(auc, t.player, d.action, d.value).error = NoError

\* C35 (as claimed): whenever no coroutine is driving the AI players of an
\* unresolved auction, a human player is among those the auction waits for:
\* the auction is never left with only AI players able to act.
C35_NeverIdleOnAI ==
    (tasks = {} /\ auc.state # RESOLVED) => HumanMayAct(game, auc)

\* The messages of a set that are delivered to player q.
DeliveredTo(q, msgs) == {m \in msgs : m.to = q}

\* The game g had player p submitted the sealed amount v instead.
OtherBid(g, p, v) == [g EXCEPT !.current_auction.bids[p] = v]

\* The sealed amounts player p can submit: a pass counts as 0.
SealedAmounts(p) ==
    {v \in Amounts : v >= 0 /\ v % 1000 = 0 /\ v <= game.players[p].money}

\* Two runs that so far differ only in the sealed amount of p, game and other,
\* go on alike for player q: the same call delivers the same messages to q,
\* resolves the auction in both or in neither, and if not leaves the runs
\* differing only in that amount.
SameFor(q, p, v, other, r1, r2, sends1, sends2) ==
    /\ DeliveredTo(q, sends1) = DeliveredTo(q, sends2)
    /\ (r1.g.current_auction = None) <=> (r2.g.current_auction = None)
    /\ r1.g.current_auction # None => r2.g = OtherBid(r1.g, p, v)

\* C31: while a sealed auction is unresolved, what a player submits (any amount
\* or a pass) delivers no message to another player; and two runs that differ
\* only in the amount one player has submitted deliver the same messages to
\* every other player at every further bid or pass of any player, give an AI
\* player the same decisions, and stay so until the auction resolves.
C31_SealedBidsHidden ==
    LET a == game.current_auction IN
    (a # None /\ a.auction_type = "sealed" /\ a.state # RESOLVED) =>
        \A p \in Players : \A q \in Players \ {p} :
            /\ DeliveredTo(q, handle_pass_sends(game, p)) = {}
            /\ \A x \in Amounts : DeliveredTo(q, handle_bid_sends(game, p, x)) = {}
            /\ p \in DOMAIN a.bids =>
                   \A v \in SealedAmounts(p) :
                       LET other == OtherBid(game, p, v) IN
                       /\ _think_auction(a, q) = _think_auction(other.current_auction, q)
                       /\ \A r \in Players :
                              /\ SameFor(q, p, v, other,
                                         handle_pass(game, r), handle_pass(other, r),
                                         handle_pass_sends(game, r),
                                         handle_pass_sends(other, r))
                              /\ \A x \in Amounts :
                                     SameFor(q, p, v, other,
                                             handle_bid(game, r, x),
                                             handle_bid(other, r, x),
                                             handle_bid_sends(game, r, x),
                                             handle_bid_sends(other, r, x))

\* A sealed auction in which one player has submitted an amount and another
\* player has yet to submit.
C31_Witness ==
    /\ game.current_auction # None
    /\ game.current_auction.auction_type = "sealed"
    /\ \E p \in DOMAIN game.current_auction.bids : game.current_auction.bids[p] > 0
    /\ \E q \in Players : q # game.current_auction.seller_index
                              /\ q \notin DOMAIN game.current_auction.bids

====
